---- MODULE Spec2Model ----
(***************************************************************************)
(* Life simulation on a hexagonal grid (joselc/life-sim-first-try).         *)
(*                                                                         *)
(* Units.  Times are whole seconds (every value used is exactly            *)
(* representable as a float, so the float arithmetic of the program is     *)
(* exact on them).  Probabilities and the values of random.random() are    *)
(* counted in 1/ProbScale (tenths): 0.7 is 7, and a draw r is in           *)
(* 0..ProbScale-1 because random.random() is in [0, 1).                    *)
(* health is kept as the numerator of a fraction over DYING_DURATION and   *)
(* growth as the numerator of a fraction over GROWTH_THRESHOLD, which is   *)
(* how update computes them (1 - t/DYING_DURATION, t/GROWTH_THRESHOLD).    *)
(***************************************************************************)
EXTENDS Integers, Sequences, FiniteSets, TLC

VARIABLES
    sm,         \* a PlantStateManager (the single plant of Spec)
    visited,    \* history: the states sm has been in, in order of entry
    last,       \* history: the latest call made and what it did
    mesh,       \* a HexMesh (the grid of SpecMesh)
    gen,        \* the locals of _initialize_grid and _generate_water_groups
    game        \* the objects of main: the GameStateManager, the language, the clock

vars == <<sm, visited, last, mesh, gen, game>>

-----------------------------------------------------------------------------
(* Bounds of the model *)

ProbScale == 10     \* probabilities are counted in 1/ProbScale
MaxDt == 13         \* largest dt passed to update
MaxNegDt == 1       \* dt ranges down to -MaxNegDt
MaxTime == 14       \* time_in_state is explored up to MaxTime
MaxBack == 2        \* ... and down to -MaxBack

DtValues == (0 - MaxNegDt)..MaxDt
\* the draws tried: every third value of [0, 1), one in each interval the
\* thresholds tried cut it into
RandomValues == {r \in 0..(ProbScale - 1) : r % 3 = 0}
ProbInputs == {-1, 0, 3, 7, ProbScale, ProbScale + 1}

Min(a, b) == IF a <= b THEN a ELSE b
Max(a, b) == IF a >= b THEN a ELSE b

\* the elements of a list
Range(seq) == {seq[k] : k \in DOMAIN seq}

-----------------------------------------------------------------------------
(* src/config.py *)

SEED_SURVIVAL_THRESHOLD == 7
PLANT_FLOWERING_PROBABILITY == 3

-----------------------------------------------------------------------------
(* src/hexagons/plant_states.py *)

SEED == "SEED"
GROWING == "GROWING"
MATURE == "MATURE"
FLOWERING == "FLOWERING"
DYING == "DYING"
DEAD == "DEAD"
PlantState == {SEED, GROWING, MATURE, FLOWERING, DYING, DEAD}

SEED_DURATION == 2
GROWTH_THRESHOLD == 3
MATURE_MAX_TIME == 5
FLOWERING_DURATION == MATURE_MAX_TIME
DYING_DURATION == 8

\* PlantStateManager.__init__
PlantStateManager ==
    [state |-> SEED,
     time_in_state |-> 0,
     health |-> DYING_DURATION,     \* 1.0
     growth |-> 0,                  \* 0.0
     seed_survival_threshold |-> SEED_SURVIVAL_THRESHOLD,
     flowering_probability |-> PLANT_FLOWERING_PROBABILITY,
     has_checked_flowering |-> FALSE]

\* What a setter call does: the manager afterwards, and whether it raised.
SetResult(self, raised) == [sm |-> self, raised |-> raised]

\* a setter that checks only the lower end of the range
set_seed_survival_threshold_open(self, value) ==
    IF ~(0 <= value)
    THEN SetResult(self, TRUE)
    ELSE SetResult([self EXCEPT !.seed_survival_threshold = value], FALSE)

set_seed_survival_threshold(self, value) ==
    IF ~(0 <= value /\ value <= ProbScale)
    THEN SetResult(self, TRUE)
    ELSE SetResult([self EXCEPT !.seed_survival_threshold = value], FALSE)

set_flowering_probability(self, value) ==
    IF ~(0 <= value /\ value <= ProbScale)
    THEN SetResult(self, TRUE)
    ELSE SetResult([self EXCEPT !.flowering_probability = value], FALSE)

\* r is the value random.random() returns if it is called
_check_seed_survival(self, r) == r < self.seed_survival_threshold

_check_flowering(self, r) == r < self.flowering_probability

\* What an update call does: the manager afterwards, the random checks it
\* called (in order) and the values it assigned to self.state (in order).
Result(self, calls, assigned) ==
    [sm |-> self, calls |-> calls, assigned |-> assigned]

\* a SEED branch that waits until the timer is strictly past SEED_DURATION
update_seed_late(self, r) ==
    IF self.time_in_state > SEED_DURATION
    THEN LET to == IF _check_seed_survival(self, r) THEN GROWING ELSE DYING
         IN Result([self EXCEPT !.state = to, !.time_in_state = 0],
                   <<"seed">>, <<to>>)
    ELSE Result(self, <<>>, <<>>)

\* a SEED branch that leaves the timer running when the seed phase ends
update_seed_keeps_timer(self, r) ==
    IF self.time_in_state >= SEED_DURATION
    THEN LET to == IF _check_seed_survival(self, r) THEN GROWING ELSE DYING
         IN Result([self EXCEPT !.state = to], <<"seed">>, <<to>>)
    ELSE Result(self, <<>>, <<>>)

\* the SEED branch of update
update_seed(self, r) ==
    IF self.time_in_state >= SEED_DURATION
    THEN LET to == IF _check_seed_survival(self, r) THEN GROWING ELSE DYING
         IN Result([self EXCEPT !.state = to, !.time_in_state = 0],
                   <<"seed">>, <<to>>)
    ELSE Result(self, <<>>, <<>>)

\* a GROWING branch that keeps the time beyond GROWTH_THRESHOLD on the timer
update_growing_carry(self) ==
    LET g == Min(GROWTH_THRESHOLD, self.time_in_state)
        s1 == [self EXCEPT !.growth = g]
    IN IF g >= GROWTH_THRESHOLD
       THEN Result([s1 EXCEPT !.state = MATURE,
                               !.time_in_state = @ - GROWTH_THRESHOLD,
                               !.has_checked_flowering = FALSE],
                   <<>>, <<MATURE>>)
       ELSE Result(s1, <<>>, <<>>)

\* a GROWING branch that leaves growth as it was when the plant matures
update_growing_stale(self) ==
    IF self.time_in_state >= GROWTH_THRESHOLD
    THEN Result([self EXCEPT !.state = MATURE, !.time_in_state = 0,
                             !.has_checked_flowering = FALSE],
                <<>>, <<MATURE>>)
    ELSE Result([self EXCEPT !.growth = self.time_in_state], <<>>, <<>>)

\* the GROWING branch of update
update_growing(self) ==
    LET g == Min(GROWTH_THRESHOLD, self.time_in_state)
        s1 == [self EXCEPT !.growth = g]
    IN IF g >= GROWTH_THRESHOLD
       THEN Result([s1 EXCEPT !.state = MATURE, !.time_in_state = 0,
                               !.has_checked_flowering = FALSE],
                   <<>>, <<MATURE>>)
       ELSE Result(s1, <<>>, <<>>)

\* a MATURE branch that never sets the has_checked_flowering latch
update_mature_unlatched(self, r) ==
    LET check == /\ self.time_in_state * 4 >= MATURE_MAX_TIME * 3
                 /\ ~self.has_checked_flowering
        calls == IF check THEN <<"flowering">> ELSE <<>>
    IN IF check /\ _check_flowering(self, r)
       THEN Result([self EXCEPT !.state = FLOWERING, !.time_in_state = 0],
                   calls, <<FLOWERING>>)
       ELSE IF self.time_in_state >= MATURE_MAX_TIME
            THEN Result([self EXCEPT !.state = DYING, !.time_in_state = 0],
                        calls, <<DYING>>)
            ELSE Result(self, calls, <<>>)

\* a MATURE branch that makes the dying check before the flowering check
update_mature_dying_first(self, r) ==
    LET check == /\ self.time_in_state * 4 >= MATURE_MAX_TIME * 3
                 /\ ~self.has_checked_flowering
        s1 == IF check THEN [self EXCEPT !.has_checked_flowering = TRUE]
                       ELSE self
        calls == IF check THEN <<"flowering">> ELSE <<>>
    IN IF self.time_in_state >= MATURE_MAX_TIME
       THEN Result([self EXCEPT !.state = DYING, !.time_in_state = 0],
                   <<>>, <<DYING>>)
       ELSE IF check /\ _check_flowering(s1, r)
            THEN Result([s1 EXCEPT !.state = FLOWERING, !.time_in_state = 0],
                        calls, <<FLOWERING>>)
            ELSE Result(s1, calls, <<>>)

\* a MATURE branch that waits until the timer is strictly past
\* MATURE_MAX_TIME
update_mature_late(self, r) ==
    LET check == /\ self.time_in_state * 4 >= MATURE_MAX_TIME * 3
                 /\ ~self.has_checked_flowering
        s1 == IF check THEN [self EXCEPT !.has_checked_flowering = TRUE]
                       ELSE self
        calls == IF check THEN <<"flowering">> ELSE <<>>
    IN IF check /\ _check_flowering(s1, r)
       THEN Result([s1 EXCEPT !.state = FLOWERING, !.time_in_state = 0],
                   calls, <<FLOWERING>>)
       ELSE IF s1.time_in_state > MATURE_MAX_TIME
            THEN Result([s1 EXCEPT !.state = DYING, !.time_in_state = 0],
                        calls, <<DYING>>)
            ELSE Result(s1, calls, <<>>)

\* the MATURE branch of update (MATURE_MAX_TIME * 0.75 is 3/4 of it)
update_mature(self, r) ==
    LET check == /\ self.time_in_state * 4 >= MATURE_MAX_TIME * 3
                 /\ ~self.has_checked_flowering
        s1 == IF check THEN [self EXCEPT !.has_checked_flowering = TRUE]
                       ELSE self
        calls == IF check THEN <<"flowering">> ELSE <<>>
    IN IF check /\ _check_flowering(s1, r)
       THEN Result([s1 EXCEPT !.state = FLOWERING, !.time_in_state = 0],
                   calls, <<FLOWERING>>)
       ELSE IF s1.time_in_state >= MATURE_MAX_TIME
            THEN Result([s1 EXCEPT !.state = DYING, !.time_in_state = 0],
                        calls, <<DYING>>)
            ELSE Result(s1, calls, <<>>)

\* a FLOWERING branch that returns the plant to MATURE
update_flowering_back(self) ==
    IF self.time_in_state >= FLOWERING_DURATION
    THEN Result([self EXCEPT !.state = MATURE, !.time_in_state = 0],
                <<>>, <<MATURE>>)
    ELSE Result(self, <<>>, <<>>)

\* a FLOWERING branch that waits until the timer is strictly past
\* FLOWERING_DURATION
update_flowering_late(self) ==
    IF self.time_in_state > FLOWERING_DURATION
    THEN Result([self EXCEPT !.state = DYING, !.time_in_state = 0],
                <<>>, <<DYING>>)
    ELSE Result(self, <<>>, <<>>)

\* the FLOWERING branch of update
update_flowering(self) ==
    IF self.time_in_state >= FLOWERING_DURATION
    THEN Result([self EXCEPT !.state = DYING, !.time_in_state = 0],
                <<>>, <<DYING>>)
    ELSE Result(self, <<>>, <<>>)

\* a DYING branch that does not clamp health at 0
update_dying_unclamped(self) ==
    LET h == DYING_DURATION - self.time_in_state
        s1 == [self EXCEPT !.health = h]
    IN IF h <= 0
       THEN Result([s1 EXCEPT !.state = DEAD, !.time_in_state = 0],
                   <<>>, <<DEAD>>)
       ELSE Result(s1, <<>>, <<>>)

\* a DYING branch that waits until the timer is strictly past DYING_DURATION
update_dying_late(self) ==
    LET h == Max(0, DYING_DURATION - self.time_in_state)
        s1 == [self EXCEPT !.health = h]
    IN IF self.time_in_state > DYING_DURATION
       THEN Result([s1 EXCEPT !.state = DEAD, !.time_in_state = 0],
                   <<>>, <<DEAD>>)
       ELSE Result(s1, <<>>, <<>>)

\* the DYING branch of update
update_dying(self) ==
    LET h == Max(0, DYING_DURATION - self.time_in_state)
        s1 == [self EXCEPT !.health = h]
    IN IF h <= 0
       THEN Result([s1 EXCEPT !.state = DEAD, !.time_in_state = 0],
                   <<>>, <<DEAD>>)
       ELSE Result(s1, <<>>, <<>>)

\* a DEAD branch that starts the plant over as a seed
update_dead_reseed(self) ==
    Result([self EXCEPT !.state = SEED, !.time_in_state = 0], <<>>, <<SEED>>)

\* update has no branch for DEAD
update_dead(self) == Result(self, <<>>, <<>>)

\* the if/elif chain of update, after time_in_state += dt
update_dispatch(self, r) ==
    CASE self.state = SEED -> update_seed(self, r)
      [] self.state = GROWING -> update_growing(self)
      [] self.state = MATURE -> update_mature(self, r)
      [] self.state = FLOWERING -> update_flowering(self)
      [] self.state = DYING -> update_dying(self)
      [] OTHER -> update_dead(self)

\* an update that carries on into the branch of the state it has just entered,
\* with the elapsed time counted there too
update_cascade(self, dt, r) ==
    LET one == update_dispatch([self EXCEPT !.time_in_state = @ + dt], r)
        two == update_dispatch([one.sm EXCEPT !.time_in_state = dt], r)
    IN IF one.assigned = <<>>
       THEN one
       ELSE Result(two.sm, one.calls \o two.calls,
                   one.assigned \o two.assigned)

\* PlantStateManager.update
update(self, dt, r) ==
    update_dispatch([self EXCEPT !.time_in_state = @ + dt], r)

\* A value of the unit interval as a fraction: health is num over
\* DYING_DURATION, growth is num over GROWTH_THRESHOLD, 0.0 and 1.0 are 0/1
\* and 1/1.
Fraction(num, den) == [num |-> num, den |-> den]

\* a color_factor that is 1.0 in DYING as well
color_factor_grown(self) ==
    IF self.state = GROWING
    THEN Fraction(self.growth, GROWTH_THRESHOLD)
    ELSE IF self.state \in {MATURE, FLOWERING, DYING}
    THEN Fraction(1, 1)
    ELSE Fraction(0, 1)

\* PlantStateManager.color_factor
color_factor(self) ==
    IF self.state = GROWING
    THEN Fraction(self.growth, GROWTH_THRESHOLD)
    ELSE IF self.state \in {MATURE, FLOWERING}
    THEN Fraction(1, 1)
    ELSE IF self.state = DYING
    THEN Fraction(self.health, DYING_DURATION)
    ELSE IF self.state = DEAD
    THEN Fraction(0, 1)
    ELSE Fraction(0, 1)

-----------------------------------------------------------------------------
(* src/hexagons/base.py, ground.py, water.py, plant.py *)

\* Lengths and coordinates are fixed-point numbers, in 1/Milli of a pixel;
\* math.sqrt(3) is Sqrt3Milli/Milli.
Milli == 1000
Sqrt3Milli == 1732

GroundHexagon(cx, cy, a) == [kind |-> "Ground", cx |-> cx, cy |-> cy, a |-> a]

WaterHexagon(cx, cy, a) == [kind |-> "Water", cx |-> cx, cy |-> cy, a |-> a]

PlantHexagon(cx, cy, a) ==
    [kind |-> "Plant", cx |-> cx, cy |-> cy, a |-> a,
     state_manager |-> PlantStateManager, animation_time |-> 0]

\* PlantHexagon.update (flower_angle, a function of animation_time that only
\* the renderer reads, is left out)
PlantHexagon_update(self, t, r) ==
    LET m == update(self.state_manager, t, r).sm
    IN [self EXCEPT !.state_manager = m,
                    !.animation_time = IF m.state = FLOWERING THEN @ + t
                                       ELSE @]

\* a cell update in which a Ground cell can sprout a plant
Hexagon_update_sprouting(self, t, r) ==
    IF self.kind = "Plant" THEN PlantHexagon_update(self, t, r)
    ELSE IF self.kind = "Ground" /\ r = 0
    THEN PlantHexagon(self.cx, self.cy, self.a)
    ELSE self

\* hexagon.update(t) for a cell of any kind: Ground and Water do nothing
Hexagon_update(self, t, r) ==
    IF self.kind = "Plant" THEN PlantHexagon_update(self, t, r) ELSE self

-----------------------------------------------------------------------------
(* src/mesh/hex_mesh.py *)

PLANT_SPAWN_PROBABILITY == 5
WATER_SPAWN_PROBABILITY == 2
MAX_WATER_PERCENTAGE == 3

\* a layout whose side length makes num_rows cells span display_height, with
\* the even columns touching the top
HexMesh_fit_height(num_columns, num_rows, display_width, display_height) ==
    LET cell_size == (display_height * Milli * Milli)
                         \div (num_rows * Sqrt3Milli)
        grid_width == 2 * cell_size + ((num_columns - 1) * 3 * cell_size) \div 2
    IN [num_columns |-> num_columns,
        num_rows |-> num_rows,
        display_width |-> display_width * Milli,
        display_height |-> display_height * Milli,
        cell_size |-> cell_size,
        offset_x |-> (display_width * Milli - grid_width) \div 2,
        offset_y |-> 0,
        grid_bounds |-> [left |-> 0, right |-> display_width * Milli,
                         top |-> 0, bottom |-> display_height * Milli],
        hexagons |-> <<>>]

\* HexMesh.__init__ up to the call of _initialize_grid; the display size is
\* given in pixels.  1.75 is 7/4.
HexMesh(num_columns, num_rows, display_width, display_height) ==
    LET hex_width == (2 * display_width * Milli * 4) \div (num_columns * 7)
        cell_size == hex_width \div 2
        grid_width == (num_columns * cell_size * 7) \div 4
        grid_height == (num_rows * cell_size * Sqrt3Milli) \div Milli
    IN [num_columns |-> num_columns,
        num_rows |-> num_rows,
        display_width |-> display_width * Milli,
        display_height |-> display_height * Milli,
        cell_size |-> cell_size,
        offset_x |-> (display_width * Milli - grid_width) \div 2,
        offset_y |-> (display_height * Milli - grid_height) \div 2,
        grid_bounds |-> [left |-> 0, right |-> display_width * Milli,
                         top |-> 0, bottom |-> display_height * Milli],
        hexagons |-> <<>>]

\* the indices of the cell list (the list is indexed from 0, as in the code)
Indices(self) == 0..(self.num_columns * self.num_rows - 1)

\* _create_ground_hexagons: column-major, index = col * num_rows + row
_create_ground_hexagons(self) ==
    LET hex_width == 2 * self.cell_size
        hex_height == (self.cell_size * Sqrt3Milli) \div Milli
        cell(i) ==
            LET col == i \div self.num_rows
                row == i % self.num_rows
                cx == self.offset_x + hex_width \div 2
                          + (col * hex_width * 3) \div 4
                cy == self.offset_y + hex_height \div 2 + row * hex_height
            IN GroundHexagon(cx,
                             IF col % 2 = 1 THEN cy + hex_height \div 2
                                            ELSE cy,
                             self.cell_size)
    IN [self EXCEPT !.hexagons = [i \in Indices(self) |-> cell(i)]]

\* _get_hex_index without the range test
_get_hex_index_unchecked(self, col, row) == col * self.num_rows + row

\* _get_hex_index: the index of the cell at (col, row), -1 outside the grid
_get_hex_index(self, col, row) ==
    IF /\ 0 <= col /\ col < self.num_columns
       /\ 0 <= row /\ row < self.num_rows
    THEN col * self.num_rows + row
    ELSE -1

\* the six candidates <<col, row>> that _get_adjacent_indices passes to
\* _get_hex_index, in the order of the code
AdjacentCandidates(col, row) ==
    IF col % 2 = 0
    THEN << <<col - 1, row - 1>>, <<col - 1, row>>, <<col, row + 1>>,
            <<col + 1, row - 1>>, <<col + 1, row>>, <<col, row - 1>> >>
    ELSE << <<col - 1, row>>, <<col - 1, row + 1>>, <<col, row + 1>>,
            <<col + 1, row>>, <<col + 1, row + 1>>, <<col, row - 1>> >>

\* _get_adjacent_indices with the two tables exchanged
_get_adjacent_indices_swapped(self, index) ==
    LET col == index \div self.num_rows
        row == index % self.num_rows
        candidates == AdjacentCandidates(col + 1, row)
        adjacent_indices ==
            [k \in 1..Len(candidates) |->
                _get_hex_index(self, candidates[k][1] - 1, candidates[k][2])]
    IN SelectSeq(adjacent_indices, LAMBDA idx : idx # -1)

\* _get_adjacent_indices: the list it returns
_get_adjacent_indices(self, index) ==
    LET col == index \div self.num_rows
        row == index % self.num_rows
        candidates == AdjacentCandidates(col, row)
        adjacent_indices ==
            [k \in 1..Len(candidates) |->
                _get_hex_index(self, candidates[k][1], candidates[k][2])]
    IN SelectSeq(adjacent_indices, LAMBDA idx : idx # -1)

\* a cap that rounds the product up
max_water_hexagons_rounded_up(self) ==
    (self.num_columns * self.num_rows * MAX_WATER_PERCENTAGE + ProbScale - 1)
        \div ProbScale

\* int(len(self.hexagons) * MAX_WATER_PERCENTAGE)
max_water_hexagons(self) ==
    (self.num_columns * self.num_rows * MAX_WATER_PERCENTAGE) \div ProbScale

IsWater(self, i) == self.hexagons[i].kind = "Water"

\* sum(1 for hex in self.hexagons if isinstance(hex, WaterHexagon))
WaterCount(self) == Cardinality({i \in DOMAIN self.hexagons : IsWater(self, i)})

\* max_attempts of _grow_water_group
grow_max_attempts == 20

\* a filter that accepts every available cell, next to Water or not
valid_adjacent_unfiltered(self, current, available_indices) ==
    {idx \in Range(_get_adjacent_indices(self, current)) :
        idx \in available_indices}

\* valid_adjacent of _grow_water_group: the neighbours of current that are
\* available and have no Water neighbour
valid_adjacent(self, current, available_indices) ==
    {idx \in Range(_get_adjacent_indices(self, current)) :
        /\ idx \in available_indices
        /\ \A adj_idx \in Range(_get_adjacent_indices(self, idx)) :
               ~IsWater(self, adj_idx)}

\* the sets random.sample(population, num) can return
Samples(population, num) ==
    {new_water \in SUBSET population : Cardinality(new_water) = num}

\* a sample size that ignores the target
SampleSize_uncapped(valid, k, target_size, water_group) ==
    Min(Cardinality(valid), k)

\* the number of cells sampled in an expansion step, k being the value of
\* random.randint(1, 3)
SampleSize(valid, k, target_size, water_group) ==
    Min(Cardinality(valid),
        Min(k, target_size - Cardinality(water_group)))

\* a return that hands back the group whatever its size
GrowReturn_any_size(water_group) == <<water_group, water_group>>

\* a return that hands back no cell to remove when the group is too small
GrowReturn_keeps_cells(water_group) ==
    IF Cardinality(water_group) < 4
    THEN <<{}, {}>>
    ELSE <<water_group, water_group>>

\* the return of _grow_water_group after its loop, as
\* <<water group, indices to remove>>; indices_to_remove and water_group
\* hold the same cells throughout
GrowReturn(water_group) ==
    IF Cardinality(water_group) < 4
    THEN <<{}, water_group>>
    ELSE <<water_group, water_group>>

\* The loop of _grow_water_group: groups are the values water_group can have
\* when the loop condition is evaluated for the time numbered attempts; the
\* result is every value the function can return from there, over all values
\* of random.choice, random.randint(1, 3) and random.sample.  (When an
\* iteration leaves the set of possible groups as it was, so does every later
\* one, and the loop is taken up at its last test.)
RECURSIVE GrowLoop(_, _, _, _, _)
GrowLoop(self, available_indices, target_size, groups, attempts) ==
    LET over == {g \in groups : ~(/\ Cardinality(g) < target_size
                                  /\ attempts < grow_max_attempts)}
        stuck(g, current) ==
            /\ valid_adjacent(self, current, available_indices) = {}
            /\ Cardinality(g) < 4
        step(g, current) ==
            LET valid == valid_adjacent(self, current, available_indices)
            IN IF valid = {} THEN {g}
               ELSE {g \cup new_water :
                        new_water \in UNION {
                            Samples(valid,
                                    SampleSize(valid, k, target_size, g)) :
                            k \in 1..3}}
        early == {g \in groups \ over : \E current \in g : stuck(g, current)}
        next == UNION {UNION {step(g, current) :
                                 current \in {c \in g : ~stuck(g, c)}} :
                       g \in groups \ over}
    IN {GrowReturn(g) : g \in over}
       \cup {<<{}, g>> : g \in early}
       \cup IF next = {} THEN {}
            ELSE GrowLoop(self, available_indices, target_size, next,
                          IF next = groups THEN grow_max_attempts
                                           ELSE attempts + 1)

\* _grow_water_group: every value it can return when random.randint(4, 8)
\* returns size
_grow_water_group(self, start_index, available_indices, size) ==
    LET remaining_capacity == max_water_hexagons(self) - WaterCount(self)
    IN IF remaining_capacity < 4
       THEN {<<{}, {start_index}>>}
       ELSE IF \E adj_idx \in Range(_get_adjacent_indices(self, start_index)) :
                   IsWater(self, adj_idx)
       THEN {<<{}, {start_index}>>}
       ELSE GrowLoop(self, available_indices, Min(size, remaining_capacity),
                     {{start_index}}, 0)

\* the locals of _generate_water_groups (pc: where _initialize_grid stands;
\* spawned: whether the water-spawn draw succeeded)
GenState(pc, spawned, available_indices, attempts, water_count) ==
    [pc |-> pc, spawned |-> spawned, available_indices |-> available_indices,
     attempts |-> attempts, water_count |-> water_count]

\* the condition of the while loop of _generate_water_groups
LoopContinues(self, attempts, water_count) ==
    /\ attempts < (self.num_columns * self.num_rows) \div 2
    /\ water_count < max_water_hexagons(self)

\* a budget test that never stops the loop
BudgetExhausted_never(self, water_count) == FALSE

\* the test before a growth attempt: a group of the minimum size, 4 cells,
\* would exceed the cap
BudgetExhausted(self, water_count) ==
    water_count + 4 > max_water_hexagons(self)

\* the conversion of a grown group to Water
ConvertToWater(self, water_group) ==
    [self EXCEPT !.hexagons =
        [i \in DOMAIN @ |->
            IF i \in water_group
            THEN WaterHexagon(@[i].cx, @[i].cy, @[i].a)
            ELSE @[i]]]

\* a planting that does not look at the kind of the cell
_add_plants_everywhere(self, draws) ==
    [self EXCEPT !.hexagons =
        [i \in DOMAIN @ |->
            IF draws[i] < PLANT_SPAWN_PROBABILITY
            THEN PlantHexagon(@[i].cx, @[i].cy, @[i].a)
            ELSE @[i]]]

\* _add_plants: draws[i] is the value random.random() returns for cell i
_add_plants(self, draws) ==
    [self EXCEPT !.hexagons =
        [i \in DOMAIN @ |->
            IF @[i].kind = "Ground" /\ draws[i] < PLANT_SPAWN_PROBABILITY
            THEN PlantHexagon(@[i].cx, @[i].cy, @[i].a)
            ELSE @[i]]]

\* a position test that excludes the ends of the two ranges
_is_position_valid_strict(self, cx, cy) ==
    LET margin == self.cell_size \div 2
    IN /\ self.grid_bounds.left - margin < cx
       /\ cx < self.grid_bounds.right + margin
       /\ self.grid_bounds.top - margin < cy
       /\ cy < self.grid_bounds.bottom + margin

\* _is_position_valid: the margin is half the side length
_is_position_valid(self, cx, cy) ==
    LET margin == self.cell_size \div 2
    IN /\ self.grid_bounds.left - margin <= cx
       /\ cx <= self.grid_bounds.right + margin
       /\ self.grid_bounds.top - margin <= cy
       /\ cy <= self.grid_bounds.bottom + margin

\* What a call on the mesh does: the mesh afterwards and whether it raised.
MeshResult(self, raised) == [mesh |-> self, raised |-> raised]

\* the second loop of _convert_plants_to_ground over the first n pairs (a
\* later pair of the same index overwrites an earlier one)
ConvertFirst(self, dead_plants, n) ==
    [self EXCEPT !.hexagons =
        [i \in DOMAIN @ |->
            LET ks == {k \in 1..n : dead_plants[k][1] = i}
            IN IF ks = {} THEN @[i]
               ELSE LET hi == CHOOSE k \in ks : \A j \in ks : j <= k
                        plant == dead_plants[hi][2]
                    IN GroundHexagon(plant.cx, plant.cy, plant.a)]]

\* a conversion that validates and converts in one loop: the pairs before the
\* first invalid one are converted when it raises
_convert_plants_to_ground_one_loop(self, dead_plants) ==
    LET bad == {k \in 1..Len(dead_plants) :
                   ~_is_position_valid(self, dead_plants[k][2].cx,
                                       dead_plants[k][2].cy)}
    IN IF bad # {}
       THEN LET first == CHOOSE k \in bad : \A j \in bad : k <= j
            IN MeshResult(ConvertFirst(self, dead_plants, first - 1), TRUE)
       ELSE MeshResult(ConvertFirst(self, dead_plants, Len(dead_plants)),
                       FALSE)

\* _convert_plants_to_ground: dead_plants is a sequence of <<index, plant>>
_convert_plants_to_ground(self, dead_plants) ==
    IF \E k \in 1..Len(dead_plants) :
           ~_is_position_valid(self, dead_plants[k][2].cx,
                               dead_plants[k][2].cy)
    THEN MeshResult(self, TRUE)
    ELSE MeshResult(ConvertFirst(self, dead_plants, Len(dead_plants)), FALSE)

IsDeadPlant(hexagon) ==
    hexagon.kind = "Plant" /\ hexagon.state_manager.state = DEAD

\* the indices in S in increasing order
RECURSIVE Ascending(_)
Ascending(S) ==
    IF S = {} THEN <<>>
    ELSE LET lo == CHOOSE i \in S : \A j \in S : i <= j
         IN <<lo>> \o Ascending(S \ {lo})

\* the list dead_plants that HexMesh.update builds
DeadPlants(self) ==
    LET idx == Ascending({i \in DOMAIN self.hexagons :
                             IsDeadPlant(self.hexagons[i])})
    IN [k \in 1..Len(idx) |-> <<idx[k], self.hexagons[idx[k]]>>]

\* a first loop that updates every cell twice
UpdateAll_twice(self, t, draws) ==
    [self EXCEPT !.hexagons =
        [i \in DOMAIN @ |->
            Hexagon_update(Hexagon_update(@[i], t, draws[i]), t, draws[i])]]

\* the first loop of HexMesh.update: every cell is updated with t
UpdateAll(self, t, draws) ==
    [self EXCEPT !.hexagons =
        [i \in DOMAIN @ |-> Hexagon_update(@[i], t, draws[i])]]

\* a mesh update that converts only the plants that died in this call
HexMesh_update_newly_dead(self, t, draws) ==
    LET updated == UpdateAll(self, t, draws)
        dead_plants == SelectSeq(DeadPlants(updated),
                           LAMBDA p : ~IsDeadPlant(self.hexagons[p[1]]))
    IN IF dead_plants # <<>>
       THEN _convert_plants_to_ground(updated, dead_plants)
       ELSE MeshResult(updated, FALSE)

\* a mesh update that turns a cell next to the one it converts into Ground too
HexMesh_update_off_by_one(self, t, draws) ==
    LET updated == UpdateAll(self, t, draws)
        dead_plants == DeadPlants(updated)
        shifted == [k \in 1..Len(dead_plants) |->
                       <<(dead_plants[k][1] + 1)
                             % (self.num_columns * self.num_rows),
                         dead_plants[k][2]>>]
    IN IF dead_plants # <<>>
       THEN _convert_plants_to_ground(updated, shifted)
       ELSE MeshResult(updated, FALSE)

\* a mesh update that puts the grid back as it was when the conversion raises
HexMesh_update_rollback(self, t, draws) ==
    LET updated == UpdateAll(self, t, draws)
        dead_plants == DeadPlants(updated)
        res == _convert_plants_to_ground(updated, dead_plants)
    IN IF dead_plants # <<>>
       THEN IF res.raised THEN MeshResult(self, TRUE) ELSE res
       ELSE MeshResult(updated, FALSE)

\* HexMesh.update; draws[i] is the value random.random() returns if the
\* update of cell i calls it
HexMesh_update(self, t, draws) ==
    LET updated == UpdateAll(self, t, draws)
        dead_plants == DeadPlants(updated)
    IN IF dead_plants # <<>>
       THEN _convert_plants_to_ground(updated, dead_plants)
       ELSE MeshResult(updated, FALSE)

-----------------------------------------------------------------------------
(* src/game_state.py, src/i18n *)

\* simulation_speed is counted in 1/SpeedScale (tenths): 1.0 is SpeedScale
\* and the 0.1 of a key press is 1.  (The float sums of the program differ
\* from these by rounding errors far below 0.1; max and min return the
\* bounds themselves.)
SpeedScale == 10
MIN_SIMULATION_SPEED == 1       \* 0.1
MAX_SIMULATION_SPEED == 50      \* 5.0

MENU == "MENU"
RUNNING == "RUNNING"
PAUSED == "PAUSED"
HELP == "HELP"
GameState == {MENU, RUNNING, PAUSED, HELP}

\* i18n: Language, the keys of LanguageManager._providers in their order,
\* and the strings of strings_en.py and strings_es.py that the controls use
ENGLISH == "en"
SPANISH == "es"
available_languages == <<ENGLISH, SPANISH>>

STRINGS(language) ==
    IF language = ENGLISH
    THEN [key \in {"controls.pause"} |-> "Pause/Resume simulation"]
    ELSE [key \in {"controls.pause"} |-> "Pausar/Reanudar simulacion"]

\* LanguageManager.get_string without format arguments
get_string(language, key) ==
    IF key \in DOMAIN STRINGS(language) THEN STRINGS(language)[key] ELSE key

\* LanguageManager.switch_language: the language afterwards and the value
\* returned
switch_language(language, language_code) ==
    IF language_code \in Range(available_languages)
    THEN [language |-> language_code, result |-> TRUE]
    ELSE [language |-> language, result |-> FALSE]

\* GameStateManager.__init__ (the fonts left out)
GameStateManager ==
    [current_state |-> RUNNING,
     simulation_speed |-> SpeedScale,
     show_grid |-> TRUE,
     controls |-> << <<"P", "Pause/Resume simulation">>,
                     <<"G", "Toggle grid lines">>,
                     <<"+/-", "Adjust simulation speed">>,
                     <<"H", "Show/Hide this help">>,
                     <<"ESC", "Exit help/pause">>,
                     <<"Q", "Quit game">> >>]

toggle_pause(self) ==
    IF self.current_state = RUNNING
    THEN [self EXCEPT !.current_state = PAUSED]
    ELSE IF self.current_state = PAUSED
    THEN [self EXCEPT !.current_state = RUNNING]
    ELSE self

\* a help toggle that only opens the help from RUNNING
toggle_help_from_running(self) ==
    IF self.current_state = HELP
    THEN [self EXCEPT !.current_state = RUNNING]
    ELSE IF self.current_state = RUNNING
    THEN [self EXCEPT !.current_state = HELP]
    ELSE self

toggle_help(self) ==
    IF self.current_state = HELP
    THEN [self EXCEPT !.current_state = RUNNING]
    ELSE [self EXCEPT !.current_state = HELP]

\* a speed adjustment without the lower bound
adjust_speed_no_minimum(self, delta) ==
    [self EXCEPT !.simulation_speed =
        Min(MAX_SIMULATION_SPEED, self.simulation_speed + delta)]

adjust_speed(self, delta) ==
    [self EXCEPT !.simulation_speed =
        Max(MIN_SIMULATION_SPEED,
            Min(MAX_SIMULATION_SPEED, self.simulation_speed + delta))]

toggle_grid(self) == [self EXCEPT !.show_grid = ~self.show_grid]

\* a pygame event; key is "" for an event without a key
Event(type, key) == [type |-> type, key |-> key]

\* What handle_input does: the manager afterwards and the value returned.
InputResult(self, quit) == [manager |-> self, quit |-> quit]

\* the keys handled outside HELP only
handle_key(self, key) ==
    IF key = "K_p" THEN toggle_pause(self)
    ELSE IF key = "K_g" THEN toggle_grid(self)
    ELSE IF key = "K_PLUS" \/ key = "K_KP_PLUS" THEN adjust_speed(self, 1)
    ELSE IF key = "K_MINUS" \/ key = "K_KP_MINUS" THEN adjust_speed(self, -1)
    ELSE self

\* a handle_input that handles P, G, + and - in HELP too
handle_input_in_help(self, event) ==
    IF event.type = "KEYDOWN"
    THEN IF event.key = "K_q" THEN InputResult(self, TRUE)
         ELSE IF event.key = "K_h" THEN InputResult(toggle_help(self), FALSE)
         ELSE IF event.key = "K_ESCAPE"
         THEN InputResult(IF self.current_state \in {HELP, PAUSED}
                          THEN [self EXCEPT !.current_state = RUNNING]
                          ELSE self,
                          FALSE)
         ELSE InputResult(handle_key(self, event.key), FALSE)
    ELSE InputResult(self, FALSE)

\* GameStateManager.handle_input
handle_input(self, event) ==
    IF event.type = "KEYDOWN"
    THEN IF event.key = "K_q" THEN InputResult(self, TRUE)
         ELSE IF event.key = "K_h" THEN InputResult(toggle_help(self), FALSE)
         ELSE IF event.key = "K_ESCAPE"
         THEN InputResult(IF self.current_state \in {HELP, PAUSED}
                          THEN [self EXCEPT !.current_state = RUNNING]
                          ELSE self,
                          FALSE)
         ELSE IF self.current_state # HELP
         THEN InputResult(handle_key(self, event.key), FALSE)
         ELSE InputResult(self, FALSE)
    ELSE InputResult(self, FALSE)

\* the objects of main: the GameStateManager, the current language of the
\* i18n module, the flag of the main loop and the time of the latest
\* reading of the clock, in seconds
Game(state_manager, language, running, current_time) ==
    [state_manager |-> state_manager, language |-> language,
     running |-> running, current_time |-> current_time]

\* a test that lets the mesh be updated in HELP
ShouldUpdate_unless_paused(state_manager) ==
    state_manager.current_state # PAUSED

\* main: the test before mesh.update
ShouldUpdate(state_manager) == state_manager.current_state = RUNNING

\* main: the value passed to mesh.update, current_time being the seconds
\* since pygame was initialised
UpdateArgument(current_time, state_manager) ==
    (current_time * state_manager.simulation_speed) \div SpeedScale

\* main: the loop over pygame.event.get()
RECURSIVE ProcessEvents(_, _)
ProcessEvents(g, events) ==
    IF events = <<>> THEN g
    ELSE LET event == Head(events)
             res == handle_input(g.state_manager, event)
         IN IF event.type = "QUIT"
            THEN ProcessEvents([g EXCEPT !.running = FALSE], Tail(events))
            ELSE ProcessEvents(
                     [g EXCEPT !.state_manager = res.manager,
                               !.running = IF res.quit THEN FALSE ELSE @],
                     Tail(events))

-----------------------------------------------------------------------------
(* Histories *)

NoDraw == "none"

\* the record of a call: r is the draw it consumed (NoDraw when it made none)
Call(op, arg, r, calls, assigned, raised) ==
    [op |-> op, arg |-> arg, r |-> r, calls |-> calls,
     assigned |-> assigned, raised |-> raised]

NoCall == Call("init", 0, NoDraw, <<>>, <<>>, FALSE)

NoMesh == [hexagons |-> <<>>]

\* no grid is being initialised
NoGen == [pc |-> "none"]

\* no game is running
NoGame == [running |-> FALSE]

\* the record of a call on the mesh: dead is the list of indices in
\* dead_plants
MeshCall(op, arg, dead, raised) ==
    [op |-> op, arg |-> arg, dead |-> dead, raised |-> raised]

-----------------------------------------------------------------------------
(* Spec: one PlantStateManager, driven by update and by the two setters *)

Init ==
    /\ sm = PlantStateManager
    /\ visited = <<SEED>>
    /\ gen = NoGen
    /\ game = NoGame
    /\ last = NoCall
    /\ mesh = NoMesh

Update ==
    \E dt \in DtValues, r \in RandomValues :
        /\ sm.time_in_state + dt <= MaxTime
        /\ sm.time_in_state + dt >= 0 - MaxBack
        /\ LET res == update(sm, dt, r)
           IN /\ sm' = res.sm
              /\ visited' = IF res.sm.state # sm.state
                            THEN Append(visited, res.sm.state)
                            ELSE visited
              /\ last' = Call("update", dt,
                              IF res.calls = <<>> THEN NoDraw ELSE r,
                              res.calls, res.assigned, FALSE)
        /\ UNCHANGED <<mesh, gen, game>>

SetSeedSurvivalThreshold ==
    \E value \in ProbInputs :
        LET res == set_seed_survival_threshold(sm, value)
        IN /\ sm' = res.sm
           /\ last' = Call("set_seed_survival_threshold", value, NoDraw,
                           <<>>, <<>>, res.raised)
           /\ UNCHANGED <<visited, mesh, gen, game>>

SetFloweringProbability ==
    \E value \in ProbInputs :
        LET res == set_flowering_probability(sm, value)
        IN /\ sm' = res.sm
           /\ last' = Call("set_flowering_probability", value, NoDraw,
                           <<>>, <<>>, res.raised)
           /\ UNCHANGED <<visited, mesh, gen, game>>

Next ==
    \/ Update
    \/ SetSeedSurvivalThreshold
    \/ SetFloweringProbability

Spec == Init /\ [][Next]_vars

-----------------------------------------------------------------------------
(* SpecForward: a fresh PlantStateManager driven by update with dt >= 0 *)

UpdateForward ==
    \E dt \in 0..MaxDt, r \in RandomValues :
        /\ sm.time_in_state + dt <= MaxTime
        /\ LET res == update(sm, dt, r)
           IN /\ sm' = res.sm
              /\ visited' = IF res.sm.state # sm.state
                            THEN Append(visited, res.sm.state)
                            ELSE visited
              /\ last' = Call("update", dt,
                              IF res.calls = <<>> THEN NoDraw ELSE r,
                              res.calls, res.assigned, FALSE)
        /\ UNCHANGED <<mesh, gen, game>>

NextForward == UpdateForward

SpecForward == Init /\ [][NextForward]_vars

-----------------------------------------------------------------------------
(* SpecMesh: a HexMesh after construction, driven by HexMesh.update *)

MaxMeshDt == 8      \* largest dt passed to HexMesh.update

\* a fine step, at which every threshold is met exactly, and a step that
\* covers every duration
MeshDtValues == {1, MaxMeshDt}

\* the draws tried for the cells of a mesh: the lowest and the highest
MeshRandomValues ==
    {r \in RandomValues : \/ \A q \in RandomValues : r <= q
                          \/ \A q \in RandomValues : q <= r}

\* the values random.random() can return to the cells of a mesh in one
\* update: any of MeshRandomValues for a Plant cell; a cell of another kind
\* makes no draw, and is given the lowest value
CellDraws(self) ==
    LET plants == {i \in DOMAIN self.hexagons :
                      self.hexagons[i].kind = "Plant"}
        lowest == CHOOSE r \in MeshRandomValues :
                      \A q \in MeshRandomValues : r <= q
    IN {[i \in DOMAIN self.hexagons |->
            IF i \in plants THEN f[i] ELSE lowest] :
        f \in [plants -> MeshRandomValues]}

\* <<num_columns, num_rows, display_width, display_height>>: a 2 x 1 grid
\* whose cells lie inside the display, and a 1 x 3 grid whose side length,
\* set by the width alone, puts its first and last cell above and below the
\* display by more than the margin
MeshConfigs == { <<2, 1, 14, 14>>, <<1, 3, 14, 14>> }

\* _initialize_grid for a grid whose water budget is below the minimum group
\* size of 4 cells, so that _generate_water_groups converts no cell
InitMesh ==
    \E c \in MeshConfigs :
        LET ground == _create_ground_hexagons(HexMesh(c[1], c[2], c[3], c[4]))
        IN /\ max_water_hexagons(ground) < 4
           /\ \E draws \in [Indices(ground) -> MeshRandomValues] :
                  mesh = _add_plants(ground, draws)
    /\ sm = PlantStateManager
    /\ visited = <<SEED>>
    /\ gen = NoGen
    /\ game = NoGame
    /\ last = MeshCall("HexMesh", 0, <<>>, FALSE)

MeshUpdate ==
    \E t \in MeshDtValues :
        /\ \A i \in DOMAIN mesh.hexagons :
               mesh.hexagons[i].kind = "Plant" =>
                   mesh.hexagons[i].state_manager.time_in_state + t <= MaxTime
        /\ \E draws \in CellDraws(mesh) :
               LET res == HexMesh_update(mesh, t, draws)
                   dead_plants == DeadPlants(UpdateAll(mesh, t, draws))
               IN /\ mesh' = res.mesh
                  /\ last' = MeshCall("HexMesh.update", t,
                                 [k \in DOMAIN dead_plants |-> dead_plants[k][1]],
                                 res.raised)
        /\ UNCHANGED <<sm, visited, gen, game>>

NextMesh == MeshUpdate

SpecMesh == InitMesh /\ [][NextMesh]_vars

\* SpecMesh with HexMesh.update called again and again
SpecMeshFair == InitMesh /\ [][NextMesh]_vars /\ WF_vars(NextMesh)

-----------------------------------------------------------------------------
(* SpecLake: a HexMesh with a lake and a few plants after construction,    *)
(* driven by HexMesh.update                                                *)

\* <<num_columns, num_rows, display_width, display_height>>: a row of 15
\* cells, whose water budget allows one lake of 4 cells
LakeConfigs == { <<15, 1, 100, 100>> }

\* the cells that can receive a plant: the first cell after the lake and
\* the last cell of the row
LakePlantCells(self) ==
    {i \in Indices(self) : i = 4 \/ i = self.num_columns * self.num_rows - 1}

\* _initialize_grid when the water-spawn draw succeeds, the first growth
\* starts at cell 0 and returns a lake of 4 cells, and the planting draws
\* succeed on some of LakePlantCells and fail on every other cell
InitLake ==
    /\ \E c \in LakeConfigs :
           LET ground == _create_ground_hexagons(HexMesh(c[1], c[2], c[3], c[4]))
               lo == CHOOSE r \in MeshRandomValues :
                         \A q \in MeshRandomValues : r <= q
               hi == CHOOSE r \in MeshRandomValues :
                         \A q \in MeshRandomValues : q <= r
           IN \E res \in _grow_water_group(ground, 0, Indices(ground), 4) :
              \E planted \in SUBSET LakePlantCells(ground) :
                  /\ res[1] # {}
                  /\ Cardinality(res[1]) <= max_water_hexagons(ground)
                  /\ lo < PLANT_SPAWN_PROBABILITY
                  /\ hi >= PLANT_SPAWN_PROBABILITY
                  /\ mesh = _add_plants(
                                ConvertToWater(ground, res[1]),
                                [i \in Indices(ground) |->
                                    IF i \in planted THEN lo ELSE hi])
    /\ sm = PlantStateManager
    /\ visited = <<SEED>>
    /\ gen = NoGen
    /\ game = NoGame
    /\ last = MeshCall("HexMesh", 0, <<>>, FALSE)

SpecLake == InitLake /\ [][NextMesh]_vars

-----------------------------------------------------------------------------
(* SpecGeom: the queries on the geometry of a freshly laid out grid *)

MaxGridSide == 4    \* largest num_columns and num_rows of SpecGeom

\* the record of a query on the mesh
GeomCall(op, arg, result) == [op |-> op, arg |-> arg, result |-> result]

\* the coordinates tried for a position along one axis, lo and hi being the
\* two bounds of the axis: at, just inside and just outside of each bound
\* widened by the margin, and one margin further in and out
ProbeValues(lo, hi, margin) ==
    UNION { {b - 2 * margin, b - margin - 1, b - margin, b - margin + 1, b,
             b + margin - 1, b + margin, b + margin + 1, b + 2 * margin} :
            b \in {lo, hi} }

\* HexMesh.__init__ up to _create_ground_hexagons, every cell Ground
InitGeom ==
    /\ \E num_columns \in 1..MaxGridSide, num_rows \in 1..MaxGridSide :
           /\ mesh = _create_ground_hexagons(
                         HexMesh(num_columns, num_rows, 14, 14))
           /\ last = GeomCall("HexMesh", <<num_columns, num_rows>>, <<>>)
    /\ sm = PlantStateManager
    /\ visited = <<SEED>>
    /\ gen = NoGen
    /\ game = NoGame

GetAdjacentIndices ==
    \E index \in Indices(mesh) :
        /\ last' = GeomCall("_get_adjacent_indices", index,
                            _get_adjacent_indices(mesh, index))
        /\ UNCHANGED <<sm, visited, mesh, gen, game>>

IsPositionValid ==
    \E x \in ProbeValues(mesh.grid_bounds.left, mesh.grid_bounds.right,
                         mesh.cell_size \div 2),
       y \in ProbeValues(mesh.grid_bounds.top, mesh.grid_bounds.bottom,
                         mesh.cell_size \div 2) :
        /\ last' = GeomCall("_is_position_valid", <<x, y>>,
                            _is_position_valid(mesh, x, y))
        /\ UNCHANGED <<sm, visited, mesh, gen, game>>

NextGeom ==
    \/ GetAdjacentIndices
    \/ IsPositionValid

SpecGeom == InitGeom /\ [][NextGeom]_vars

-----------------------------------------------------------------------------
(* SpecGen: _initialize_grid on a freshly laid out grid: the water-spawn    *)
(* draw, the loop of _generate_water_groups one iteration at a time, and   *)
(* _add_plants                                                             *)

\* <<num_columns, num_rows, display_width, display_height>>: the 3 x 3 grid
\* of the tests (water budget 2), a grid of 14 cells (budget 4, one lake) and
\* a row of 27 cells (budget 8, two lakes)
GenConfigs == { <<3, 3, 100, 100>>, <<4, 4, 100, 100>>, <<27, 1, 100, 100>> }

MaxGenStart == 6    \* largest index random.choice picks as a start cell

\* the start cells tried: the cells of the first row, up to MaxGenStart
GenStarts(self) ==
    {i \in Indices(self) : i % self.num_rows = 0 /\ i <= MaxGenStart}

\* the values of random.randint(4, 8) tried: those above the remaining
\* capacity (which is at least 4 here) give the same target_size as the
\* remaining capacity itself
GrowSizes(self) ==
    {size \in 4..8 :
        size <= Max(4, max_water_hexagons(self) - WaterCount(self))}

\* HexMesh.__init__ up to the call of _initialize_grid, and
\* _create_ground_hexagons
InitGen ==
    /\ \E c \in GenConfigs :
           /\ mesh = _create_ground_hexagons(HexMesh(c[1], c[2], c[3], c[4]))
           /\ last = GeomCall("HexMesh", c, <<{}, {}>>)
    /\ gen = GenState("_initialize_grid", FALSE, {}, 0, 0)
    /\ game = NoGame
    /\ sm = PlantStateManager
    /\ visited = <<SEED>>

\* the water-spawn draw of _initialize_grid and, when it succeeds,
\* _generate_water_groups up to its loop
SpawnWater ==
    /\ gen.pc = "_initialize_grid"
    /\ \E r \in MeshRandomValues :
           LET water_count == WaterCount(mesh)
               available_indices ==
                   {i \in DOMAIN mesh.hexagons : ~IsWater(mesh, i)}
           IN /\ gen' =
                     IF r < WATER_SPAWN_PROBABILITY
                     THEN IF water_count >= max_water_hexagons(mesh)
                          THEN GenState("_add_plants", TRUE, {}, 0,
                                        water_count)
                          ELSE GenState(
                                   IF LoopContinues(mesh, 0, water_count)
                                   THEN "_generate_water_groups"
                                   ELSE "_add_plants",
                                   TRUE, available_indices, 0, water_count)
                     ELSE GenState("_add_plants", FALSE, {}, 0, 0)
              /\ last' = GeomCall("_initialize_grid", r, <<{}, {}>>)
    /\ UNCHANGED <<sm, visited, mesh, game>>

\* one iteration of the loop of _generate_water_groups, and the test of the
\* loop condition that follows it
GenerateWaterGroup ==
    /\ gen.pc = "_generate_water_groups"
    /\ LET attempts == gen.attempts + 1
           break == [gen EXCEPT !.pc = "_add_plants", !.attempts = attempts]
       IN IF gen.available_indices = {}
          THEN /\ gen' = break
               /\ last' = GeomCall("break", -1, <<{}, {}>>)
               /\ UNCHANGED mesh
          ELSE \E start_index \in gen.available_indices \cap GenStarts(mesh) :
                   IF BudgetExhausted(mesh, gen.water_count)
                   THEN /\ gen' = break
                        /\ last' = GeomCall("break", start_index, <<{}, {}>>)
                        /\ UNCHANGED mesh
                   ELSE \E size \in GrowSizes(mesh) :
                        \E res \in _grow_water_group(
                                       mesh, start_index,
                                       gen.available_indices, size) :
                            LET water_group == res[1]
                                indices_to_remove == res[2]
                                commit ==
                                    /\ water_group # {}
                                    /\ gen.water_count
                                           + Cardinality(water_group)
                                       <= max_water_hexagons(mesh)
                                water_count ==
                                    IF commit
                                    THEN gen.water_count
                                             + Cardinality(water_group)
                                    ELSE gen.water_count
                            IN /\ mesh' = IF commit
                                          THEN ConvertToWater(mesh, water_group)
                                          ELSE mesh
                               /\ gen' = GenState(
                                      IF LoopContinues(mesh, attempts,
                                                       water_count)
                                      THEN "_generate_water_groups"
                                      ELSE "_add_plants",
                                      gen.spawned,
                                      gen.available_indices
                                          \ indices_to_remove,
                                      attempts, water_count)
                               /\ last' = GeomCall("_grow_water_group",
                                                   start_index, res)
    /\ UNCHANGED <<sm, visited, game>>

\* _add_plants, every cell receiving the same draw
AddPlants ==
    /\ gen.pc = "_add_plants"
    /\ \E r \in MeshRandomValues :
           /\ mesh' = _add_plants(mesh, [i \in Indices(mesh) |-> r])
           /\ last' = GeomCall("_add_plants", r, <<{}, {}>>)
    /\ gen' = [gen EXCEPT !.pc = "done"]
    /\ UNCHANGED <<sm, visited, game>>

NextGen ==
    \/ SpawnWater
    \/ GenerateWaterGroup
    \/ AddPlants

SpecGen == InitGen /\ [][NextGen]_vars

-----------------------------------------------------------------------------
(* SpecInput: a GameStateManager and the i18n module, driven by events and *)
(* by calls of their methods                                               *)

\* the record of a call on the GameStateManager or on i18n
GameCall(op, arg, result) == [op |-> op, arg |-> arg, result |-> result]

\* the events tried: every key that handle_input names, a key and a kind of
\* event it does not name
Events ==
    {Event("KEYDOWN", key) :
        key \in {"K_q", "K_h", "K_ESCAPE", "K_p", "K_g", "K_PLUS",
                 "K_KP_PLUS", "K_MINUS", "K_KP_MINUS", "K_l", "K_a"}}
    \cup {Event("KEYUP", "K_p"), Event("MOUSEBUTTONDOWN", "")}

\* the values tried for the delta of adjust_speed: 0.1 either way, and more
\* than the whole range either way
SpeedDeltas ==
    {1, -1, MAX_SIMULATION_SPEED + MAX_SIMULATION_SPEED,
     0 - MAX_SIMULATION_SPEED - MAX_SIMULATION_SPEED}

InitInput ==
    /\ game = Game(GameStateManager, ENGLISH, TRUE, 0)
    /\ last = GameCall("GameStateManager", "", FALSE)
    /\ sm = PlantStateManager
    /\ visited = <<SEED>>
    /\ mesh = NoMesh
    /\ gen = NoGen

HandleInput ==
    \E event \in Events :
        LET res == handle_input(game.state_manager, event)
        IN /\ game' = [game EXCEPT !.state_manager = res.manager]
           /\ last' = GameCall("handle_input", event, res.quit)
           /\ UNCHANGED <<sm, visited, mesh, gen>>

AdjustSpeed ==
    \E delta \in SpeedDeltas :
        /\ game' = [game EXCEPT
                       !.state_manager = adjust_speed(@, delta)]
        /\ last' = GameCall("adjust_speed", delta, FALSE)
        /\ UNCHANGED <<sm, visited, mesh, gen>>

TogglePause ==
    /\ game' = [game EXCEPT !.state_manager = toggle_pause(@)]
    /\ last' = GameCall("toggle_pause", "", FALSE)
    /\ UNCHANGED <<sm, visited, mesh, gen>>

ToggleHelp ==
    /\ game' = [game EXCEPT !.state_manager = toggle_help(@)]
    /\ last' = GameCall("toggle_help", "", FALSE)
    /\ UNCHANGED <<sm, visited, mesh, gen>>

SwitchLanguage ==
    \E language_code \in {ENGLISH, SPANISH, "fr"} :
        LET res == switch_language(game.language, language_code)
        IN /\ game' = [game EXCEPT !.language = res.language]
           /\ last' = GameCall("switch_language", language_code, res.result)
           /\ UNCHANGED <<sm, visited, mesh, gen>>

NextInput ==
    \/ HandleInput
    \/ AdjustSpeed
    \/ TogglePause
    \/ ToggleHelp
    \/ SwitchLanguage

SpecInput == InitInput /\ [][NextInput]_vars

-----------------------------------------------------------------------------
(* SpecGrow: the loop of _generate_water_groups with the loop of           *)
(* _grow_water_group one iteration at a time, from the entry of the outer  *)
(* loop on a grid without Water                                            *)

\* <<num_columns, num_rows, display_width, display_height>>: a grid of 16
\* cells (budget 4) and a row of 27 cells (budget 8, two lakes)
GrowConfigs == {<<4, 4, 100, 100>>, <<27, 1, 100, 100>>}

\* the locals of _generate_water_groups (available_indices, attempts,
\* water_count) and of the call of _grow_water_group in progress
\* (start_index, target_size, water_group, grow_attempts)
GrowState(pc, available_indices, attempts, water_count, start_index, target_size, water_group, grow_attempts) ==
    [pc |-> pc, available_indices |-> available_indices,
     attempts |-> attempts, water_count |-> water_count,
     start_index |-> start_index, target_size |-> target_size,
     water_group |-> water_group, grow_attempts |-> grow_attempts]

\* the rest of an iteration of _generate_water_groups once _grow_water_group
\* has returned res, and the test of the loop condition that follows
AfterGrow(self, g, res) ==
    LET water_group == res[1]
        indices_to_remove == res[2]
        commit == /\ water_group # {}
                  /\ g.water_count + Cardinality(water_group)
                         <= max_water_hexagons(self)
        water_count == IF commit
                       THEN g.water_count + Cardinality(water_group)
                       ELSE g.water_count
    IN [mesh |-> IF commit THEN ConvertToWater(self, water_group) ELSE self,
        gen |-> GrowState(IF LoopContinues(self, g.attempts, water_count)
                          THEN "_generate_water_groups" ELSE "_add_plants",
                          g.available_indices \ indices_to_remove,
                          g.attempts, water_count, -1, 0, {}, 0)]

\* _generate_water_groups up to its loop, the water-spawn draw having
\* succeeded on a grid of Ground cells
InitGrow ==
    /\ \E c \in GrowConfigs :
           /\ mesh = _create_ground_hexagons(HexMesh(c[1], c[2], c[3], c[4]))
           /\ last = GeomCall("_generate_water_groups", -1, <<{}, {}>>)
    /\ gen = GrowState(IF LoopContinues(mesh, 0, 0)
                       THEN "_generate_water_groups" ELSE "_add_plants",
                       DOMAIN mesh.hexagons, 0, 0, -1, 0, {}, 0)
    /\ game = NoGame
    /\ sm = PlantStateManager
    /\ visited = <<SEED>>

\* an iteration of the loop of _generate_water_groups up to the loop of
\* _grow_water_group, or to its end when the growth does not begin
GrowStart ==
    /\ gen.pc = "_generate_water_groups"
    /\ LET attempts == gen.attempts + 1
           counted == [gen EXCEPT !.attempts = attempts]
           break == [counted EXCEPT !.pc = "_add_plants"]
           remaining_capacity == max_water_hexagons(mesh) - WaterCount(mesh)
       IN IF gen.available_indices = {}
          THEN /\ gen' = break
               /\ last' = GeomCall("break", -1, <<{}, {}>>)
               /\ UNCHANGED mesh
          ELSE \E start_index \in gen.available_indices \cap GenStarts(mesh) :
                   IF BudgetExhausted(mesh, gen.water_count)
                   THEN /\ gen' = break
                        /\ last' = GeomCall("break", start_index, <<{}, {}>>)
                        /\ UNCHANGED mesh
                   ELSE IF \/ remaining_capacity < 4
                           \/ \E adj_idx \in Range(_get_adjacent_indices(
                                                       mesh, start_index)) :
                                  IsWater(mesh, adj_idx)
                   THEN LET res == <<{}, {start_index}>>
                            after == AfterGrow(mesh, counted, res)
                        IN /\ gen' = after.gen
                           /\ mesh' = after.mesh
                           /\ last' = GeomCall("_grow_water_group",
                                               start_index, res)
                   ELSE \E size \in 4..8 :
                            /\ gen' = [counted EXCEPT
                                   !.pc = "_grow_water_group",
                                   !.start_index = start_index,
                                   !.target_size =
                                       Min(size, remaining_capacity),
                                   !.water_group = {start_index},
                                   !.grow_attempts = 0]
                            /\ last' = GeomCall("while", start_index,
                                                <<{}, {}>>)
                            /\ UNCHANGED mesh
    /\ UNCHANGED <<sm, visited, game>>

\* the condition of the while loop of _grow_water_group
GrowContinues(g) ==
    /\ Cardinality(g.water_group) < g.target_size
    /\ g.grow_attempts < grow_max_attempts

\* one iteration of the loop of _grow_water_group
GrowStep ==
    /\ gen.pc = "_grow_water_group"
    /\ GrowContinues(gen)
    /\ \E current \in gen.water_group :
           LET valid == valid_adjacent(mesh, current, gen.available_indices)
               counted == [gen EXCEPT !.grow_attempts = @ + 1]
           IN IF valid = {} /\ Cardinality(gen.water_group) < 4
              THEN LET res == <<{}, gen.water_group>>
                       after == AfterGrow(mesh, gen, res)
                   IN /\ gen' = after.gen
                      /\ mesh' = after.mesh
                      /\ last' = GeomCall("_grow_water_group",
                                          gen.start_index, res)
              ELSE IF valid = {}
              THEN /\ gen' = counted
                   /\ last' = GeomCall("while", gen.start_index, <<{}, {}>>)
                   /\ UNCHANGED mesh
              ELSE \E k \in 1..3 :
                   \E new_water \in Samples(valid,
                                       SampleSize(valid, k, gen.target_size,
                                                  gen.water_group)) :
                       /\ gen' = [counted EXCEPT
                                     !.water_group = @ \cup new_water]
                       /\ last' = GeomCall("while", gen.start_index,
                                           <<{}, {}>>)
                       /\ UNCHANGED mesh
    /\ UNCHANGED <<sm, visited, game>>

\* the end of the loop of _grow_water_group, its return, and the rest of the
\* iteration of _generate_water_groups
GrowExit ==
    /\ gen.pc = "_grow_water_group"
    /\ ~GrowContinues(gen)
    /\ LET res == GrowReturn(gen.water_group)
           after == AfterGrow(mesh, gen, res)
       IN /\ gen' = after.gen
          /\ mesh' = after.mesh
          /\ last' = GeomCall("_grow_water_group", gen.start_index, res)
    /\ UNCHANGED <<sm, visited, game>>

NextGrow == GrowStart \/ GrowStep \/ GrowExit

SpecGrow == InitGrow /\ [][NextGrow]_vars

-----------------------------------------------------------------------------
(* SpecDriver: the loop of main, one frame at a time, on a small mesh      *)

MaxClock == 30      \* the clock is explored up to MaxClock seconds

\* the time between two readings of the clock: whole multiples of
\* SpeedScale seconds, for which current_time * simulation_speed is a whole
\* number of seconds at every speed
FrameSteps == {SpeedScale, 2 * SpeedScale}

\* the events one frame finds in the queue: none, or one of these
FrameEvents ==
    {<<>>}
    \cup {<<Event("KEYDOWN", key)>> :
             key \in {"K_q", "K_h", "K_ESCAPE", "K_p", "K_PLUS", "K_MINUS"}}
    \cup {<<Event("QUIT", "")>>}

\* the record of a frame: the events it handled, whether it called
\* mesh.update and with which value
FrameCall(events, updated, t) ==
    [op |-> "frame", arg |-> events, result |-> [updated |-> updated, t |-> t]]

\* main up to its loop: a 2 x 1 mesh, a GameStateManager, running = True
InitDriver ==
    /\ LET ground == _create_ground_hexagons(HexMesh(2, 1, 14, 14))
       IN \E draws \in [Indices(ground) -> MeshRandomValues] :
              mesh = _add_plants(ground, draws)
    /\ game = Game(GameStateManager, ENGLISH, TRUE, 0)
    /\ last = GameCall("main", <<>>, [updated |-> FALSE, t |-> 0])
    /\ sm = PlantStateManager
    /\ visited = <<SEED>>
    /\ gen = NoGen

\* one iteration of the loop of main
Frame ==
    /\ game.running
    /\ \E events \in FrameEvents, step \in FrameSteps :
           /\ game.current_time + step <= MaxClock
           /\ LET handled == ProcessEvents(game, events)
                  current_time == game.current_time + step
                  t == UpdateArgument(current_time, handled.state_manager)
              IN IF ShouldUpdate(handled.state_manager)
                 THEN \E draws \in [DOMAIN mesh.hexagons -> MeshRandomValues] :
                          LET res == HexMesh_update(mesh, t, draws)
                          IN /\ mesh' = res.mesh
                             /\ game' = [handled EXCEPT
                                            !.current_time = current_time,
                                            !.running = IF res.raised
                                                        THEN FALSE ELSE @]
                             /\ last' = FrameCall(events, TRUE, t)
                 ELSE /\ mesh' = mesh
                      /\ game' = [handled EXCEPT
                                     !.current_time = current_time]
                      /\ last' = FrameCall(events, FALSE, 0)
    /\ UNCHANGED <<sm, visited, gen>>

NextDriver == Frame

SpecDriver == InitDriver /\ [][NextDriver]_vars

-----------------------------------------------------------------------------
(* Properties of PlantStateManager, under Spec *)

\* the timer update compares with its thresholds: time_in_state + dt
Timer(dt) == sm.time_in_state + dt

\* C1: DEAD is absorbing: from a state where the plant is DEAD, no call (an
\* update with any dt, or a setter) leads to a state where it is not DEAD.
C1_DeadIsAbsorbing == [][sm.state = DEAD => sm'.state = DEAD]_vars

\* C1 witness: an update call was made on a plant that was already DEAD
\* (it assigned no state) and has moved its timer.
C1_Witness ==
    /\ sm.state = DEAD
    /\ last.op = "update"
    /\ last.assigned = <<>>
    /\ sm.time_in_state > 0

\* C2: an update of a SEED plant leaves it SEED while the timer it reaches is
\* below SEED_DURATION; the update that brings the timer to SEED_DURATION or
\* more makes the survival draw and moves the plant to GROWING when the draw
\* is below seed_survival_threshold and to DYING otherwise.
C2_SeedTransition ==
    [][(last'.op = "update" /\ sm.state = SEED) =>
          IF Timer(last'.arg) < SEED_DURATION
          THEN sm'.state = SEED /\ last'.calls = <<>>
          ELSE /\ last'.calls = <<"seed">>
               /\ sm'.state = IF last'.r < sm.seed_survival_threshold
                              THEN GROWING ELSE DYING]_vars

\* C2 witness: a seed whose survival draw failed has become DYING.
C2_Witness ==
    /\ sm.state = DYING
    /\ last.op = "update"
    /\ last.calls = <<"seed">>
    /\ last.r >= sm.seed_survival_threshold

\* the states that lie two or more transitions after s
BeyondNext(s) ==
    CASE s = SEED -> {MATURE, FLOWERING, DEAD}
      [] s = GROWING -> {FLOWERING, DYING, DEAD}
      [] s = MATURE -> {DEAD}
      [] s = FLOWERING -> {DEAD}
      [] OTHER -> {}

\* C3: one update call assigns the plant's state at most once, whatever dt:
\* the state after the call is the state before it or the one state the call
\* assigned, and never a state two or more transitions further on.
C3_OneTransitionPerUpdate ==
    [][last'.op = "update" =>
          /\ Len(last'.assigned) <= 1
          /\ sm'.state = IF last'.assigned = <<>> THEN sm.state
                         ELSE last'.assigned[1]
          /\ sm'.state \notin BeyondNext(sm.state)]_vars

\* C3 witness: a seed updated with a dt that covers SEED_DURATION and
\* GROWTH_THRESHOLD together has only become GROWING.
C3_Witness ==
    /\ sm.state = GROWING
    /\ last.op = "update"
    /\ last.arg >= SEED_DURATION + GROWTH_THRESHOLD + MaxBack
    /\ last.assigned = <<GROWING>>

IsPrefix(s, t) == Len(s) <= Len(t) /\ SubSeq(t, 1, Len(s)) = s

LifecyclePaths ==
    { <<SEED, GROWING, MATURE, FLOWERING, DYING, DEAD>>,
      <<SEED, GROWING, MATURE, DYING, DEAD>>,
      <<SEED, DYING, DEAD>> }

\* C4: the states a plant has been in, in order of entry, are an initial part
\* of SEED, GROWING, MATURE, FLOWERING, DYING, DEAD or of SEED, GROWING,
\* MATURE, DYING, DEAD or of SEED, DYING, DEAD: only the seven listed state
\* changes occur and no state is entered twice.
C4_LifecycleOrder == \E path \in LifecyclePaths : IsPrefix(visited, path)

\* C4 witness: a plant has gone through all six states.
C4_Witness == visited = <<SEED, GROWING, MATURE, FLOWERING, DYING, DEAD>>

\* C5: in MATURE an update makes the flowering draw exactly when the timer it
\* reaches is at least 3/4 of MATURE_MAX_TIME and has_checked_flowering is
\* not set, and making it sets has_checked_flowering; once the latch is set
\* it stays set while the plant is MATURE, and no update draws again or moves
\* the plant to FLOWERING.
C5_FloweringDrawOnce ==
    [][/\ (last'.op = "update" /\ sm.state = MATURE) =>
            /\ (last'.calls = <<"flowering">>) <=>
                   (/\ Timer(last'.arg) * 4 >= MATURE_MAX_TIME * 3
                    /\ ~sm.has_checked_flowering)
            /\ last'.calls \in {<<>>, <<"flowering">>}
            /\ last'.calls = <<"flowering">> => sm'.has_checked_flowering
            /\ sm.has_checked_flowering =>
                   last'.calls = <<>> /\ sm'.state # FLOWERING
       /\ (sm.state = MATURE /\ sm'.state = MATURE /\ sm.has_checked_flowering)
            => sm'.has_checked_flowering]_vars

\* C5 witness: an update of a Mature plant whose draw was made earlier has
\* passed 3/4 of MATURE_MAX_TIME again without drawing.
C5_Witness ==
    /\ sm.state = MATURE
    /\ sm.has_checked_flowering
    /\ last.op = "update"
    /\ last.calls = <<>>
    /\ sm.time_in_state * 4 >= MATURE_MAX_TIME * 3

\* C6: when one update takes a Mature plant whose flowering draw is not made
\* yet to MATURE_MAX_TIME or more (so past 3/4 of it too), the draw is made
\* first: a draw below flowering_probability sends the plant to FLOWERING with
\* timer 0, and only a failed draw sends it to DYING in that call.
C6_FloweringBeforeDying ==
    [][(/\ last'.op = "update"
        /\ sm.state = MATURE
        /\ ~sm.has_checked_flowering
        /\ Timer(last'.arg) >= MATURE_MAX_TIME) =>
          /\ last'.calls = <<"flowering">>
          /\ sm'.time_in_state = 0
          /\ sm'.state = IF last'.r < sm.flowering_probability
                         THEN FLOWERING ELSE DYING]_vars

\* C6 witness: a plant has gone from MATURE to FLOWERING in an update whose
\* dt alone is MATURE_MAX_TIME or more.
C6_Witness ==
    /\ sm.state = FLOWERING
    /\ sm.time_in_state = 0
    /\ last.op = "update"
    /\ last.calls = <<"flowering">>
    /\ last.arg >= MATURE_MAX_TIME + MaxBack

InUnitRange(value) == 0 <= value /\ value <= ProbScale

\* C7: assigning seed_survival_threshold or flowering_probability a value
\* outside [0, 1] raises and leaves the stored value as it was; assigning a
\* value in [0, 1], ends included, stores it without raising.
C7_SetterValidation ==
    [][/\ last'.op = "set_seed_survival_threshold" =>
            IF InUnitRange(last'.arg)
            THEN /\ ~last'.raised
                 /\ sm'.seed_survival_threshold = last'.arg
            ELSE /\ last'.raised
                 /\ sm'.seed_survival_threshold = sm.seed_survival_threshold
       /\ last'.op = "set_flowering_probability" =>
            IF InUnitRange(last'.arg)
            THEN /\ ~last'.raised
                 /\ sm'.flowering_probability = last'.arg
            ELSE /\ last'.raised
                 /\ sm'.flowering_probability = sm.flowering_probability]_vars

\* C7 witness: a threshold of 1 was stored, and a later assignment of a value
\* above 1 has raised and left it.
C7_Witness ==
    /\ last.op = "set_seed_survival_threshold"
    /\ last.raised
    /\ last.arg > ProbScale
    /\ sm.seed_survival_threshold = ProbScale

-----------------------------------------------------------------------------
(* Properties of HexMesh.update, under SpecMesh *)

\* the indices the latest call listed in dead_plants
DeadIndices(call) == {call.dead[k] : k \in DOMAIN call.dead}

SamePlace(h1, h2) == h1.cx = h2.cx /\ h1.cy = h2.cy /\ h1.a = h2.a

\* C8: when HexMesh.update returns without raising, no cell of the grid is a
\* Plant in state DEAD, and every plant that was DEAD after the per-cell
\* updates of the call is a Ground cell.
C8_NoDeadPlantAfterUpdate ==
    [][(last'.op = "HexMesh.update" /\ ~last'.raised) =>
          /\ \A i \in DOMAIN mesh'.hexagons : ~IsDeadPlant(mesh'.hexagons[i])
          /\ \A i \in DeadIndices(last') :
                 mesh'.hexagons[i].kind = "Ground"]_vars

\* C8 witness: an update that found dead plants has returned normally.
C8_Witness ==
    /\ last.op = "HexMesh.update"
    /\ ~last.raised
    /\ last.dead # <<>>

\* C9: an update that converts dead plants keeps the number of cells, puts a
\* Ground cell with the same cx, cy and a at the index of each dead plant,
\* and leaves the kind, cx, cy and a of every other cell as they were.
C9_ConversionInPlace ==
    [][(last'.op = "HexMesh.update" /\ ~last'.raised) =>
          /\ DOMAIN mesh'.hexagons = DOMAIN mesh.hexagons
          /\ \A i \in DOMAIN mesh.hexagons :
                 /\ SamePlace(mesh'.hexagons[i], mesh.hexagons[i])
                 /\ mesh'.hexagons[i].kind =
                        IF i \in DeadIndices(last') THEN "Ground"
                        ELSE mesh.hexagons[i].kind]_vars

\* C9 witness: an update has converted a dead plant while another cell of
\* the grid is still a Plant.
C9_Witness ==
    /\ last.op = "HexMesh.update"
    /\ ~last.raised
    /\ last.dead # <<>>
    /\ \E i \in DOMAIN mesh.hexagons : mesh.hexagons[i].kind = "Plant"

\* C10: HexMesh.update raises exactly when some plant of dead_plants has its
\* center outside the margin-expanded bounds, and then no plant of the batch
\* is converted, those listed before the offending one included: every cell
\* keeps its kind and the plants of the batch are still DEAD plants.
C10_AllOrNothing ==
    [][last'.op = "HexMesh.update" =>
          /\ last'.raised <=>
                 \E i \in DeadIndices(last') :
                     ~_is_position_valid(mesh, mesh.hexagons[i].cx,
                                         mesh.hexagons[i].cy)
          /\ last'.raised =>
                 /\ \A i \in DOMAIN mesh.hexagons :
                        mesh'.hexagons[i].kind = mesh.hexagons[i].kind
                 /\ \A i \in DeadIndices(last') :
                        IsDeadPlant(mesh'.hexagons[i])]_vars

\* C10 witness: an update has raised on a batch whose first plant has a
\* valid position and is still a DEAD plant of the grid.
C10_Witness ==
    /\ last.op = "HexMesh.update"
    /\ last.raised
    /\ Len(last.dead) >= 2
    /\ LET first == mesh.hexagons[last.dead[1]]
       IN IsDeadPlant(first) /\ _is_position_valid(mesh, first.cx, first.cy)

-----------------------------------------------------------------------------
(* Properties of the timer and of the derived values of PlantStateManager *)

\* C16: after any sequence of update calls with dt >= 0 on a fresh
\* PlantStateManager, time_in_state >= 0, 0 <= health <= 1 and
\* 0 <= growth <= 1 (health counts in 1/DYING_DURATION, growth in
\* 1/GROWTH_THRESHOLD).
C16_ValueRanges ==
    /\ sm.time_in_state >= 0
    /\ 0 <= sm.health /\ sm.health <= DYING_DURATION
    /\ 0 <= sm.growth /\ sm.growth <= GROWTH_THRESHOLD

\* C16 witness: a plant that grew to full growth has died in an update whose
\* dt alone exceeds DYING_DURATION, so that 1 - t/DYING_DURATION was negative
\* before the clamp.
C16_Witness ==
    /\ sm.state = DEAD
    /\ last.op = "update"
    /\ last.assigned = <<DEAD>>
    /\ last.arg > DYING_DURATION
    /\ sm.health = 0
    /\ sm.growth = GROWTH_THRESHOLD

\* C17: an update that changes the state leaves time_in_state at exactly 0;
\* an update that does not change it leaves time_in_state at its previous
\* value plus dt.
C17_TimerReset ==
    [][last'.op = "update" =>
          IF sm'.state # sm.state
          THEN sm'.time_in_state = 0
          ELSE sm'.time_in_state = sm.time_in_state + last'.arg]_vars

\* C17 witness: a GROWING plant became MATURE in an update that took the
\* timer strictly beyond GROWTH_THRESHOLD, and its timer is 0.
C17_Witness ==
    /\ sm.state = MATURE
    /\ last.op = "update"
    /\ last.assigned = <<MATURE>>
    /\ last.arg > GROWTH_THRESHOLD + MaxBack
    /\ sm.time_in_state = 0

\* C18: color_factor is 0 in SEED, equal to growth in GROWING, 1 in MATURE
\* and in FLOWERING, equal to health in DYING and 0 in DEAD.
C18_ColorFactor ==
    LET f == color_factor(sm)
    IN CASE sm.state = SEED -> f.num = 0
         [] sm.state = GROWING ->
                f.num * GROWTH_THRESHOLD = sm.growth * f.den
         [] sm.state \in {MATURE, FLOWERING} -> f.num = f.den
         [] sm.state = DYING ->
                f.num * DYING_DURATION = sm.health * f.den
         [] sm.state = DEAD -> f.num = 0

\* C18 witness: a DYING plant whose health is strictly between 0 and 1, and
\* whose color_factor is that health.
C18_Witness ==
    /\ sm.state = DYING
    /\ 0 < sm.health /\ sm.health < DYING_DURATION
    /\ color_factor(sm) = Fraction(sm.health, DYING_DURATION)

-----------------------------------------------------------------------------
(* Properties of the branches of update, under SpecForward *)

\* C31: an update of a DYING plant leaves it DYING with
\* health = 1 - time_in_state / DYING_DURATION while the timer it reaches is
\* below DYING_DURATION, and makes it DEAD with health 0 when the timer it
\* reaches is DYING_DURATION or more; health is 1 when DYING is entered,
\* max(0, 1 - time_in_state / DYING_DURATION) in DYING and 0 in DEAD.
C31_DyingHealth ==
    [][last'.op = "update" =>
          /\ sm.state = DYING =>
                 IF Timer(last'.arg) >= DYING_DURATION
                 THEN sm'.state = DEAD /\ sm'.health = 0
                 ELSE /\ sm'.state = DYING
                      /\ sm'.health = DYING_DURATION - Timer(last'.arg)
          /\ (sm.state # DYING /\ sm'.state = DYING) =>
                 sm'.health = DYING_DURATION
          /\ sm'.state = DYING =>
                 sm'.health = Max(0, DYING_DURATION - sm'.time_in_state)
          /\ sm'.state = DEAD => sm'.health = 0]_vars

\* C31 witness: a DYING plant has become DEAD in an update of 1 second, the
\* one that brought its timer to DYING_DURATION exactly.
C31_Witness ==
    /\ sm.state = DEAD
    /\ last.op = "update"
    /\ last.assigned = <<DEAD>>
    /\ last.arg = 1
    /\ sm.health = 0

\* C32: an update of a GROWING plant leaves it GROWING with
\* growth = time_in_state / GROWTH_THRESHOLD while the timer it reaches is
\* below GROWTH_THRESHOLD, and makes it MATURE with growth 1 and
\* has_checked_flowering false when the timer it reaches is GROWTH_THRESHOLD
\* or more; growth is 1 in MATURE and in FLOWERING.
C32_GrowingGrowth ==
    [][last'.op = "update" =>
          /\ sm.state = GROWING =>
                 IF Timer(last'.arg) >= GROWTH_THRESHOLD
                 THEN /\ sm'.state = MATURE
                      /\ sm'.growth = GROWTH_THRESHOLD
                      /\ ~sm'.has_checked_flowering
                 ELSE /\ sm'.state = GROWING
                      /\ sm'.growth = Timer(last'.arg)
          /\ sm'.state \in {MATURE, FLOWERING} =>
                 sm'.growth = GROWTH_THRESHOLD]_vars

\* C32 witness: a GROWING plant has become MATURE in an update of 1 second,
\* the one that brought its timer to GROWTH_THRESHOLD exactly.
C32_Witness ==
    /\ sm.state = MATURE
    /\ last.op = "update"
    /\ last.assigned = <<MATURE>>
    /\ last.arg = 1
    /\ sm.growth = GROWTH_THRESHOLD
    /\ ~sm.has_checked_flowering

\* C33: an update of a MATURE plant that does not send it to FLOWERING makes
\* it DYING when the timer it reaches is MATURE_MAX_TIME or more and leaves
\* it MATURE otherwise; a plant that becomes DYING from MATURE has never been
\* FLOWERING.
C33_MatureToDying ==
    [][(last'.op = "update" /\ sm.state = MATURE) =>
          /\ sm'.state \in {MATURE, FLOWERING, DYING}
          /\ sm'.state # FLOWERING =>
                 (sm'.state = DYING <=> Timer(last'.arg) >= MATURE_MAX_TIME)
          /\ sm'.state = DYING =>
                 visited' = <<SEED, GROWING, MATURE, DYING>>]_vars

\* C33 witness: a MATURE plant whose flowering draw was made in an earlier
\* update has become DYING in an update of 1 second, without a draw.
C33_Witness ==
    /\ sm.state = DYING
    /\ visited = <<SEED, GROWING, MATURE, DYING>>
    /\ last.op = "update"
    /\ last.calls = <<>>
    /\ last.assigned = <<DYING>>
    /\ last.arg = 1

\* C34: FLOWERING is entered with the timer at 0; an update of a FLOWERING
\* plant leaves it FLOWERING while the timer it reaches is below
\* FLOWERING_DURATION and makes it DYING, and nothing else, when the timer
\* it reaches is FLOWERING_DURATION or more.
C34_FloweringToDying ==
    [][last'.op = "update" =>
          /\ (sm.state # FLOWERING /\ sm'.state = FLOWERING) =>
                 sm'.time_in_state = 0
          /\ sm.state = FLOWERING =>
                 IF Timer(last'.arg) >= FLOWERING_DURATION
                 THEN sm'.state = DYING
                 ELSE /\ sm'.state = FLOWERING
                      /\ sm'.time_in_state = Timer(last'.arg)]_vars

\* C34 witness: a FLOWERING plant has become DYING in an update of 1 second,
\* the one that brought its timer to FLOWERING_DURATION exactly.
C34_Witness ==
    /\ sm.state = DYING
    /\ visited = <<SEED, GROWING, MATURE, FLOWERING, DYING>>
    /\ last.op = "update"
    /\ last.assigned = <<DYING>>
    /\ last.arg = 1

\* C37: after an update the timer is strictly below the duration of the
\* state the plant is in (SEED_DURATION in SEED, GROWTH_THRESHOLD in GROWING,
\* MATURE_MAX_TIME in MATURE, FLOWERING_DURATION in FLOWERING, DYING_DURATION
\* in DYING), and a MATURE plant whose timer is at 3/4 of MATURE_MAX_TIME or
\* more has made its flowering draw.
C37_TimerBelowDuration ==
    /\ sm.state = SEED => sm.time_in_state < SEED_DURATION
    /\ sm.state = GROWING => sm.time_in_state < GROWTH_THRESHOLD
    /\ sm.state = MATURE => sm.time_in_state < MATURE_MAX_TIME
    /\ sm.state = FLOWERING => sm.time_in_state < FLOWERING_DURATION
    /\ sm.state = DYING => sm.time_in_state < DYING_DURATION
    /\ (sm.state = MATURE /\ sm.time_in_state * 4 >= MATURE_MAX_TIME * 3)
           => sm.has_checked_flowering

\* C37 witness: a MATURE plant in the last quarter of MATURE_MAX_TIME, its
\* draw made, one second before the end.
C37_Witness ==
    /\ sm.state = MATURE
    /\ last.op = "update"
    /\ sm.time_in_state = MATURE_MAX_TIME - 1
    /\ sm.has_checked_flowering

-----------------------------------------------------------------------------
(* Properties of the grid geometry, under SpecGeom *)

\* C11: for every grid of at least one column and one row and every index i
\* of it, the list _get_adjacent_indices(i) returns has at most 6 entries,
\* no entry twice, no entry equal to i, every entry an index of the grid;
\* and j is in the list of i exactly when i is in the list of j.
C11_AdjacencyWellFormed ==
    last.op = "_get_adjacent_indices" =>
        LET i == last.arg
            adjacent == last.result
        IN /\ Len(adjacent) \in 0..6
           /\ \A k, l \in DOMAIN adjacent :
                  adjacent[k] = adjacent[l] => k = l
           /\ \A k \in DOMAIN adjacent :
                  /\ adjacent[k] # i
                  /\ 0 <= adjacent[k]
                  /\ adjacent[k] < mesh.num_columns * mesh.num_rows
           /\ \A j \in Indices(mesh) :
                  j \in Range(adjacent)
                      <=> i \in Range(_get_adjacent_indices(mesh, j))

\* C11 witness: the query was made for a cell with all six neighbours.
C11_Witness ==
    /\ last.op = "_get_adjacent_indices"
    /\ Len(last.result) = 6

\* C20: with (col, row) = (index div num_rows, index mod num_rows), the
\* cells returned are those of (col-1,row-1), (col-1,row), (col,row+1),
\* (col+1,row-1), (col+1,row), (col,row-1) for an even col and of
\* (col-1,row), (col-1,row+1), (col,row+1), (col+1,row), (col+1,row+1),
\* (col,row-1) for an odd col that lie inside the grid, each as
\* col * num_rows + row, and nothing else.
C20_NeighbourTables ==
    last.op = "_get_adjacent_indices" =>
        LET col == last.arg \div mesh.num_rows
            row == last.arg % mesh.num_rows
            offsets ==
                IF col % 2 = 0
                THEN { <<-1, -1>>, <<-1, 0>>, <<0, 1>>,
                       <<1, -1>>, <<1, 0>>, <<0, -1>> }
                ELSE { <<-1, 0>>, <<-1, 1>>, <<0, 1>>,
                       <<1, 0>>, <<1, 1>>, <<0, -1>> }
            kept == {d \in offsets :
                        /\ col + d[1] \in 0..(mesh.num_columns - 1)
                        /\ row + d[2] \in 0..(mesh.num_rows - 1)}
        IN /\ Range(last.result) =
                  {(col + d[1]) * mesh.num_rows + row + d[2] : d \in kept}
           /\ Len(last.result) = Cardinality(kept)

\* C20 witness: the query was made for a cell of an odd column at the edge
\* of the grid: some of its candidates were dropped and some kept.
C20_Witness ==
    /\ last.op = "_get_adjacent_indices"
    /\ (last.arg \div mesh.num_rows) % 2 = 1
    /\ Len(last.result) \in 1..5

\* C19: _is_position_valid(x, y) is true exactly when
\* left - a/2 <= x <= right + a/2 and top - a/2 <= y <= bottom + a/2, a being
\* the side length, both ends included.  (Stated on doubled coordinates.)
C19_PositionValid ==
    last.op = "_is_position_valid" =>
        LET x == last.arg[1]
            y == last.arg[2]
            a == mesh.cell_size
            b == mesh.grid_bounds
        IN last.result <=> /\ 2 * b.left - a <= 2 * x
                           /\ 2 * x <= 2 * b.right + a
                           /\ 2 * b.top - a <= 2 * y
                           /\ 2 * y <= 2 * b.bottom + a

\* C19 witness: a position exactly on the widened left bound and on the
\* widened bottom bound was found valid.
C19_Witness ==
    /\ last.op = "_is_position_valid"
    /\ 2 * last.arg[1] = 2 * mesh.grid_bounds.left - mesh.cell_size
    /\ 2 * last.arg[2] = 2 * mesh.grid_bounds.bottom + mesh.cell_size
    /\ last.result

-----------------------------------------------------------------------------
(* Properties of the terrain generation, under SpecGen *)

\* the Water cells connected to the Water cells given
RECURSIVE Connected(_, _)
Connected(self, cells) ==
    LET more == {j \in DOMAIN self.hexagons :
                    /\ IsWater(self, j)
                    /\ j \notin cells
                    /\ \E c \in cells :
                           j \in Range(_get_adjacent_indices(self, c))}
    IN IF more = {} THEN cells ELSE Connected(self, cells \cup more)

\* the cells a step has turned into Water
NewWater == {i \in DOMAIN mesh.hexagons : IsWater(mesh', i) /\ ~IsWater(mesh, i)}

\* C12: whatever the draws, the number of Water cells never exceeds
\* int(total_cells * MAX_WATER_PERCENTAGE), during the generation and after.
C12_WaterCap ==
    WaterCount(mesh)
        <= (Cardinality(DOMAIN mesh.hexagons) * MAX_WATER_PERCENTAGE)
               \div ProbScale

\* C12 witness: the construction is complete and the Water cells, of more
\* than one lake, are exactly as many as the cap allows.
C12_Witness ==
    /\ gen.pc = "done"
    /\ WaterCount(mesh) * ProbScale + ProbScale
           > Cardinality(DOMAIN mesh.hexagons) * MAX_WATER_PERCENTAGE
    /\ \E i \in DOMAIN mesh.hexagons :
           /\ IsWater(mesh, i)
           /\ Connected(mesh, {i}) # {j \in DOMAIN mesh.hexagons :
                                          IsWater(mesh, j)}

\* C13: every maximal connected set of Water cells has at least 4 cells, and
\* a growth attempt that ends with fewer than 4 cells converts no cell.
C13_MinimumLake ==
    [][/\ \A i \in DOMAIN mesh'.hexagons :
              IsWater(mesh', i) => Cardinality(Connected(mesh', {i})) >= 4
       /\ (/\ last'.op = "_grow_water_group"
           /\ Cardinality(last'.result[2]) < 4)
              => mesh'.hexagons = mesh.hexagons]_vars

\* C13 witness: with a lake in place, a later attempt grew to 3 cells, gave
\* up and returned no group.
C13_Witness ==
    /\ last.op = "_grow_water_group"
    /\ Cardinality(last.result[2]) = 3
    /\ last.result[1] = {}
    /\ WaterCount(mesh) >= 4

\* C14: no cell that an attempt turns into Water is adjacent to a cell that
\* was Water before the attempt, and an attempt whose start cell is adjacent
\* to Water turns no cell into Water.
C14_LakesApart ==
    [][last'.op = "_grow_water_group" =>
          /\ \A c \in NewWater :
                 \A adj_idx \in Range(_get_adjacent_indices(mesh, c)) :
                     ~IsWater(mesh, adj_idx)
          /\ (\E adj_idx \in Range(_get_adjacent_indices(mesh, last'.arg)) :
                  IsWater(mesh, adj_idx))
                 => NewWater = {}]_vars

\* C14 witness: a second lake has been committed with a single Ground cell
\* between it and the first.
C14_Witness ==
    /\ last.op = "_grow_water_group"
    /\ last.result[1] # {}
    /\ \E c \in last.result[1] :
           \E between \in Range(_get_adjacent_indices(mesh, c)) :
               /\ ~IsWater(mesh, between)
               /\ \E w \in Range(_get_adjacent_indices(mesh, between)) :
                      IsWater(mesh, w) /\ w \notin last.result[1]

\* C15: when the water-spawn draw has succeeded, the constructed HexMesh has
\* at least one Water cell.
C15_WaterWhenSpawned ==
    (gen.pc = "done" /\ gen.spawned) => WaterCount(mesh) > 0

\* the cap on Water cells, int(total_cells * MAX_WATER_PERCENTAGE)
WaterBudget(self) ==
    (Cardinality(DOMAIN self.hexagons) * MAX_WATER_PERCENTAGE) \div ProbScale

C35_GridComposition ==
    [][/\ DOMAIN mesh'.hexagons = 0..(mesh.num_columns * mesh.num_rows - 1)
       /\ \A i \in DOMAIN mesh'.hexagons :
              mesh'.hexagons[i].kind \in {"Ground", "Water", "Plant"}
       /\ last'.op = "_add_plants" =>
              \A i \in DOMAIN mesh.hexagons :
                  /\ mesh'.hexagons[i].kind = "Plant" =>
                         mesh.hexagons[i].kind = "Ground"
                  /\ IsWater(mesh', i) <=> IsWater(mesh, i)
       /\ (gen'.pc = "done" /\ ~gen'.spawned) => WaterCount(mesh') = 0]_vars

\* C35 witness: a constructed grid with a lake and with plants.
C35_Witness ==
    /\ gen.pc = "done"
    /\ last.op = "_add_plants"
    /\ WaterCount(mesh) >= 4
    /\ \E i \in DOMAIN mesh.hexagons : mesh.hexagons[i].kind = "Plant"

-----------------------------------------------------------------------------
(* Properties of the generation loops, under SpecGrow *)

\* C29: the generation is bounded: every iteration of the loop of
\* _generate_water_groups counts one attempt, of which there are never more
\* than total_cells div 2; every iteration of the loop of _grow_water_group
\* counts one step, of which a growth never has more than 20; the available
\* cells only ever become fewer; and the start cell of a growth is one of
\* the available cells and is not among them once the growth has returned,
\* whatever it returned.
C29_GenerationBounded ==
    [][/\ gen.pc = "_generate_water_groups" =>
              /\ gen'.attempts = gen.attempts + 1
              /\ gen'.attempts <= Cardinality(DOMAIN mesh.hexagons) \div 2
       /\ (gen.pc = "_grow_water_group" /\ gen'.pc = "_grow_water_group") =>
              /\ gen'.grow_attempts = gen.grow_attempts + 1
              /\ gen'.grow_attempts <= grow_max_attempts
       /\ gen'.available_indices \subseteq gen.available_indices
       /\ last'.op = "_grow_water_group" =>
              /\ last'.arg \in gen.available_indices
              /\ last'.arg \notin gen'.available_indices]_vars

\* C29 witness: with a lake in place, a later growth has used its 20 steps
\* without reaching its target.
C29_Witness ==
    /\ gen.pc = "_grow_water_group"
    /\ gen.attempts >= 2
    /\ WaterCount(mesh) >= 4
    /\ gen.grow_attempts = grow_max_attempts
    /\ Cardinality(gen.water_group) < gen.target_size

\* C30: the target of a growth is the smaller of a value in 4..8 and the
\* budget that remains when the attempt starts; a step of the growth never
\* adds more cells than the target minus the size of the group; and a group
\* that is committed is the group returned, has between 4 and 8 cells and no
\* more cells than the budget that remained.
C30_GroupSize ==
    [][LET remaining == WaterBudget(mesh) - WaterCount(mesh)
       IN /\ (/\ gen.pc = "_generate_water_groups"
              /\ gen'.pc = "_grow_water_group") =>
                 \E size \in 4..8 : gen'.target_size = Min(size, remaining)
          /\ (gen.pc = "_grow_water_group" /\ gen'.pc = "_grow_water_group") =>
                 Cardinality(gen'.water_group \ gen.water_group)
                     <= gen.target_size - Cardinality(gen.water_group)
          /\ NewWater # {} =>
                 /\ NewWater = last'.result[1]
                 /\ 4 <= Cardinality(NewWater)
                 /\ Cardinality(NewWater) <= 8
                 /\ Cardinality(NewWater) <= remaining]_vars

\* C30 witness: a second lake has been committed, of exactly the 4 cells of
\* budget that the first lake had left.
C30_Witness ==
    /\ last.op = "_grow_water_group"
    /\ Cardinality(last.result[1]) = 4
    /\ gen.attempts >= 2
    /\ WaterCount(mesh) = 8
    /\ WaterBudget(mesh) = 8

-----------------------------------------------------------------------------
(* Properties of GameStateManager, under SpecInput *)

\* C22: after any sequence of adjust_speed calls and of + and - key events
\* from 1.0, simulation_speed is within [0.1, 5.0]; a call that would leave
\* the range sets the speed to the bound on that side.
C22_SpeedRange ==
    [][/\ MIN_SIMULATION_SPEED <= game'.state_manager.simulation_speed
       /\ game'.state_manager.simulation_speed <= MAX_SIMULATION_SPEED
       /\ last'.op = "adjust_speed" =>
              LET wanted == game.state_manager.simulation_speed + last'.arg
              IN game'.state_manager.simulation_speed =
                     IF wanted < MIN_SIMULATION_SPEED
                     THEN MIN_SIMULATION_SPEED
                     ELSE IF wanted > MAX_SIMULATION_SPEED
                     THEN MAX_SIMULATION_SPEED
                     ELSE wanted]_vars

\* C22 witness: a - key event at the lowest speed has left the speed there.
C22_Witness ==
    /\ last.op = "handle_input"
    /\ last.arg = Event("KEYDOWN", "K_MINUS")
    /\ game.state_manager.current_state # HELP
    /\ game.state_manager.simulation_speed = MIN_SIMULATION_SPEED

\* C24: in HELP, handle_input changes nothing for the keys P, G, + and -,
\* and for every event other than KEYDOWN of H, ESC or Q; it returns True
\* for Q alone.
C24_HelpIgnoresKeys ==
    [][(last'.op = "handle_input" /\ game.state_manager.current_state = HELP)
          => /\ (~(/\ last'.arg.type = "KEYDOWN"
                   /\ last'.arg.key \in {"K_h", "K_ESCAPE"}))
                    => game'.state_manager = game.state_manager
             /\ last'.result
                    <=> last'.arg = Event("KEYDOWN", "K_q")]_vars

\* C24 witness: a + key event arrived in HELP with the grid switched off
\* and the speed changed before, and the manager is still in HELP.
C24_Witness ==
    /\ last.op = "handle_input"
    /\ last.arg = Event("KEYDOWN", "K_PLUS")
    /\ game.state_manager.current_state = HELP
    /\ ~game.state_manager.show_grid
    /\ game.state_manager.simulation_speed # SpeedScale

\* C25: the H key leads from HELP to RUNNING and from every other state to
\* HELP; the ESC key leads from HELP and from PAUSED to RUNNING and leaves
\* RUNNING as it is.
C25_HelpAndEscape ==
    [][last'.op = "handle_input" =>
          /\ last'.arg = Event("KEYDOWN", "K_h") =>
                 game'.state_manager.current_state =
                     IF game.state_manager.current_state = HELP
                     THEN RUNNING ELSE HELP
          /\ last'.arg = Event("KEYDOWN", "K_ESCAPE") =>
                 game'.state_manager.current_state = RUNNING]_vars

\* C25 witness: the H key was pressed in PAUSED and the manager is in HELP.
C25_Witness ==
    /\ last.op = "handle_input"
    /\ last.arg = Event("KEYDOWN", "K_h")
    /\ game.state_manager.current_state = HELP
    /\ game.state_manager.simulation_speed = MAX_SIMULATION_SPEED

\* the language after language in the list of available languages
NextLanguage(language) ==
    LET i == CHOOSE k \in DOMAIN available_languages :
                 available_languages[k] = language
    IN available_languages[(i % Len(available_languages)) + 1]

\* C26: a KEYDOWN event for the L key makes the next available language the
\* current one and sets the description of the first control to the string
\* of 'controls.pause' in that language.
C26_LanguageKey ==
    [][(last'.op = "handle_input" /\ last'.arg = Event("KEYDOWN", "K_l"))
          => /\ game'.language = NextLanguage(game.language)
             /\ game'.state_manager.controls[1][2]
                    = get_string(game'.language, "controls.pause")]_vars

-----------------------------------------------------------------------------
(* Properties of the loop of main, under SpecDriver *)

\* C23: a frame that ends its event handling in PAUSED or HELP does not call
\* mesh.update, and leaves every cell as it was.
C23_NoUpdateWhilePaused ==
    [][(/\ last'.op = "frame"
        /\ game'.state_manager.current_state \in {PAUSED, HELP})
          => /\ ~last'.result.updated
             /\ mesh' = mesh]_vars

\* C23 witness: after an update that moved a plant out of SEED, a frame has
\* passed in HELP without an update.
C23_Witness ==
    /\ last.op = "frame"
    /\ game.state_manager.current_state = HELP
    /\ ~last.result.updated
    /\ \E i \in DOMAIN mesh.hexagons :
           /\ mesh.hexagons[i].kind = "Plant"
           /\ mesh.hexagons[i].state_manager.state # SEED

\* C28: the value a RUNNING frame passes to mesh.update is the time since
\* the previous frame multiplied by simulation_speed.
C28_UpdateGetsDelta ==
    [][(last'.op = "frame" /\ last'.result.updated)
          => last'.result.t * SpeedScale
                 = (game'.current_time - game.current_time)
                       * game'.state_manager.simulation_speed]_vars

-----------------------------------------------------------------------------
(* Properties of the layout, under SpecGeom *)

\* the height of num_rows cells of the mesh, in 1/Milli of a thousandth
RowsHeight(self) == self.num_rows * self.cell_size * Sqrt3Milli

-----------------------------------------------------------------------------
(* Properties of HexMesh.update on a grid with a lake, under SpecLake *)

\* C36: HexMesh.update(t) leaves every Ground and every Water cell as it
\* was, and what it does to a Plant cell is one PlantHexagon.update with the
\* same t, followed, when that update has left the plant DEAD, by its
\* conversion to Ground in the same call: the plants listed for conversion
\* are those that are DEAD after their update.
C36_EveryCellOnce ==
    [][(last'.op = "HexMesh.update" /\ ~last'.raised) =>
          \A i \in DOMAIN mesh.hexagons :
              LET before == mesh.hexagons[i]
                  after == mesh'.hexagons[i]
              IN IF before.kind # "Plant"
                 THEN after = before /\ i \notin DeadIndices(last')
                 ELSE \E r \in MeshRandomValues :
                          LET once == PlantHexagon_update(before, last'.arg, r)
                          IN IF IsDeadPlant(once)
                             THEN /\ i \in DeadIndices(last')
                                  /\ after = GroundHexagon(before.cx, before.cy,
                                                           before.a)
                             ELSE /\ i \notin DeadIndices(last')
                                  /\ after = once]_vars

\* C36 witness: next to a lake, an update has converted a plant that died in
\* that call while another plant was updated and lives on.
C36_Witness ==
    /\ last.op = "HexMesh.update"
    /\ last.dead # <<>>
    /\ WaterCount(mesh) >= 4
    /\ \E i \in DOMAIN mesh.hexagons :
           /\ mesh.hexagons[i].kind = "Plant"
           /\ mesh.hexagons[i].state_manager.state # SEED

\* the numbers of cells of a kind
KindCount(self, kind) ==
    Cardinality({i \in DOMAIN self.hexagons : self.hexagons[i].kind = kind})

\* C39: an update call keeps the number of cells and the set of Water
\* indices, leaves every Ground cell a Ground cell and makes no cell a Plant:
\* the number of Plant cells does not increase and the number of Ground
\* cells does not decrease.
C39_KindsUnderUpdate ==
    [][last'.op = "HexMesh.update" =>
          /\ DOMAIN mesh'.hexagons = DOMAIN mesh.hexagons
          /\ \A i \in DOMAIN mesh.hexagons :
                 /\ IsWater(mesh', i) <=> IsWater(mesh, i)
                 /\ mesh.hexagons[i].kind = "Ground" =>
                        mesh'.hexagons[i].kind = "Ground"
                 /\ mesh'.hexagons[i].kind = "Plant" =>
                        mesh.hexagons[i].kind = "Plant"
          /\ KindCount(mesh', "Plant") <= KindCount(mesh, "Plant")
          /\ KindCount(mesh', "Ground") >= KindCount(mesh, "Ground")]_vars

\* C39 witness: on a grid with a lake, every plant has died and been
\* converted, the last of them in the latest update.
C39_Witness ==
    /\ last.op = "HexMesh.update"
    /\ last.dead # <<>>
    /\ WaterCount(mesh) >= 4
    /\ KindCount(mesh, "Plant") = 0
    /\ KindCount(mesh, "Ground") + WaterCount(mesh)
           = mesh.num_columns * mesh.num_rows

-----------------------------------------------------------------------------
(* Properties of a raising HexMesh.update, under SpecMesh *)

\* C40: when HexMesh.update raises, the grid is left as the per-cell updates
\* of the call made it, with every plant of the batch a DEAD plant; and the
\* update call that follows one that raised raises too, lists at least the
\* same plants and changes the kind of no cell.
C40_RaiseIsPermanent ==
    [][last'.op = "HexMesh.update" =>
          /\ last'.raised =>
                 /\ \E draws \in CellDraws(mesh) :
                        mesh' = UpdateAll(mesh, last'.arg, draws)
                 /\ \A i \in DeadIndices(last') :
                        IsDeadPlant(mesh'.hexagons[i])
          /\ last.raised =>
                 /\ last'.raised
                 /\ DeadIndices(last) \subseteq DeadIndices(last')
                 /\ \A i \in DOMAIN mesh.hexagons :
                        mesh'.hexagons[i].kind = mesh.hexagons[i].kind]_vars

\* C40 witness: an update has raised again, on a batch that holds a plant
\* already DEAD before the call next to one that died since the first raise.
C40_Witness ==
    /\ last.op = "HexMesh.update"
    /\ last.raised
    /\ \E i, j \in DeadIndices(last) :
           /\ mesh.hexagons[i].state_manager.time_in_state > 0
           /\ mesh.hexagons[j].state_manager.time_in_state = 0

=============================================================================
